---- MODULE Spec2Model ----
(***************************************************************************)
(* A model of claude-permissions-hook: the shell statement parser          *)
(* (parser/shell.go), the signature builder and the rule matcher           *)
(* (matcher/matcher.go) over a loaded configuration (config/config.go).    *)
(*                                                                         *)
(* Strings are TLA+ strings; Len, SubSeq and \o act on them character by   *)
(* character, so prefixes, substrings and joins are computed as Go does.   *)
(***************************************************************************)
EXTENDS Naturals, Sequences, FiniteSets, TLC

(***************************************************************************)
(* strings package helpers                                                 *)
(***************************************************************************)

\* The character at position i of s, "" past the end (end of input).
Ch(s, i) == IF i >= 1 /\ i <= Len(s) THEN SubSeq(s, i, i) ELSE ""

\* strings.HasPrefix
HasPrefix(s, p) == Len(p) <= Len(s) /\ SubSeq(s, 1, Len(p)) = p

\* strings.HasSuffix
HasSuffix(s, p) ==
    Len(p) <= Len(s) /\ SubSeq(s, Len(s) - Len(p) + 1, Len(s)) = p

\* strings.TrimSuffix
TrimSuffix(s, p) ==
    IF HasSuffix(s, p) THEN SubSeq(s, 1, Len(s) - Len(p)) ELSE s

\* strings.Contains
Contains(s, p) ==
    \E i \in 1..(Len(s) + 1) :
        i + Len(p) - 1 <= Len(s) /\ SubSeq(s, i, i + Len(p) - 1) = p

\* The position of the first occurrence of character c in s at or after i,
\* 0 when there is none.
RECURSIVE IndexFrom(_, _, _)
IndexFrom(s, c, i) ==
    IF i > Len(s) THEN 0
    ELSE IF Ch(s, i) = c THEN i
    ELSE IndexFrom(s, c, i + 1)

\* The position of the last "/" of s, 0 when there is none.
RECURSIVE LastSlash(_, _)
LastSlash(s, i) ==
    IF i = 0 THEN 0
    ELSE IF Ch(s, i) = "/" THEN i
    ELSE LastSlash(s, i - 1)

\* strings.Join
RECURSIVE Join(_, _)
Join(strs, sep) ==
    IF Len(strs) = 0 THEN ""
    ELSE IF Len(strs) = 1 THEN strs[1]
    ELSE strs[1] \o sep \o Join(Tail(strs), sep)

RECURSIVE Concat(_)
Concat(strs) ==
    IF Len(strs) = 0 THEN "" ELSE strs[1] \o Concat(Tail(strs))

(***************************************************************************)
(* regexp: the patterns of the model are literal patterns, optionally      *)
(* anchored with a leading ^ or a trailing $, with \c standing for the     *)
(* character c.  MatchString searches the text for the pattern.            *)
(***************************************************************************)
RECURSIVE Unescape(_, _)
Unescape(re, i) ==
    IF i > Len(re) THEN ""
    ELSE IF Ch(re, i) = "\\" THEN Ch(re, i + 1) \o Unescape(re, i + 2)
    ELSE Ch(re, i) \o Unescape(re, i + 1)

MatchString(re, s) ==
    LET atStart == HasPrefix(re, "^")
        r1      == IF atStart THEN SubSeq(re, 2, Len(re)) ELSE re
        atEnd   == HasSuffix(r1, "$") /\ ~HasSuffix(r1, "\\$")
        r2      == IF atEnd THEN SubSeq(r1, 1, Len(r1) - 1) ELSE r1
        lit     == Unescape(r2, 1)
    IN  CASE atStart /\ atEnd -> s = lit
          [] atStart          -> HasPrefix(s, lit)
          [] atEnd            -> HasSuffix(s, lit)
          [] OTHER            -> Contains(s, lit)

(***************************************************************************)
(* The shell grammar read by syntax.NewParser().Parse: statements joined   *)
(* by ; and &, and-or lists (&&, ||, left associative), pipelines (|, |&,  *)
(* right nested), subshells ( ... ), words made of literals, '...',        *)
(* "...", $NAME, ${NAME}, $( ... ) and backquotes, leading NAME=value     *)
(* assignments and # comments.                                             *)
(***************************************************************************)
NameStart ==
    {"a", "b", "c", "d", "e", "f", "g", "h", "i", "j", "k", "l", "m",
     "n", "o", "p", "q", "r", "s", "t", "u", "v", "w", "x", "y", "z",
     "A", "B", "C", "D", "E", "F", "G", "H", "I", "J", "K", "L", "M",
     "N", "O", "P", "Q", "R", "S", "T", "U", "V", "W", "X", "Y", "Z", "_"}

\* The backquote character (a lone backquote cannot be written as a literal).
Backquote == SubSeq("`'", 1, 1)

Digits == {"0", "1", "2", "3", "4", "5", "6", "7", "8", "9"}

NameChar == NameStart \cup Digits

\* A word ends at the end of input, a blank or an operator character, and
\* inside backquotes at the closing backquote.
WordEnd(c, bq) ==
    c \in {"", " ", ";", "&", "|", "(", ")"} \/ (bq /\ c = Backquote)

RECURSIVE SkipSpaces(_, _)
SkipSpaces(s, i) == IF Ch(s, i) = " " THEN SkipSpaces(s, i + 1) ELSE i

\* The end (exclusive) of the run of name characters starting at i.
RECURSIVE NameEnd(_, _)
NameEnd(s, i) == IF Ch(s, i) \in NameChar THEN NameEnd(s, i + 1) ELSE i

\* Syntax tree nodes.
LitPart(v)       == [t |-> "Lit", v |-> v, parts |-> <<>>, stmts |-> <<>>]
SglPart(v)       == [t |-> "SglQuoted", v |-> v, parts |-> <<>>, stmts |-> <<>>]
DblPart(parts)   == [t |-> "DblQuoted", v |-> "", parts |-> parts, stmts |-> <<>>]
ParamPart(name)  == [t |-> "ParamExp", v |-> name, parts |-> <<>>, stmts |-> <<>>]
SubstPart(stmts) == [t |-> "CmdSubst", v |-> "", parts |-> <<>>, stmts |-> stmts]

CallNode(assigns, args) ==
    [t |-> "CallExpr", assigns |-> assigns, args |-> args,
     op |-> "", x |-> <<>>, y |-> <<>>, stmts |-> <<>>]
BinaryNode(op, x, y) ==
    [t |-> "BinaryCmd", assigns |-> <<>>, args |-> <<>>,
     op |-> op, x |-> <<x>>, y |-> <<y>>, stmts |-> <<>>]
SubshellNode(stmts) ==
    [t |-> "Subshell", assigns |-> <<>>, args |-> <<>>,
     op |-> "", x |-> <<>>, y |-> <<>>, stmts |-> stmts]
StmtNode(cmd, bg) == [cmd |-> cmd, Background |-> bg]

\* Parse results: ok is FALSE on a syntax error; none is TRUE when nothing
\* was read at pos; term is TRUE when a statement consumed its ; or &.
Fail == [ok |-> FALSE, none |-> TRUE, val |-> <<>>, pos |-> 0, term |-> FALSE]
Got(val, pos) ==
    [ok |-> TRUE, none |-> FALSE, val |-> val, pos |-> pos, term |-> FALSE]
Nothing(pos) ==
    [ok |-> TRUE, none |-> TRUE, val |-> <<>>, pos |-> pos, term |-> FALSE]

FlushLit(acc, lit) == IF lit = "" THEN acc ELSE Append(acc, LitPart(lit))

\* A character c, followed by n, that is not one more literal character.
LitStop(c, n, dbl, bq) ==
    \/ c \in {"", "\"", Backquote}
    \/ c = "$" /\ (n \in {"(", "{"} \/ n \in NameStart)
    \/ ~dbl /\ (WordEnd(c, bq) \/ c = "'")

\* The end (exclusive) of the run of literal characters that includes i - 1.
RECURSIVE LitEnd(_, _, _, _)
LitEnd(s, i, dbl, bq) ==
    IF LitStop(Ch(s, i), Ch(s, i + 1), dbl, bq) THEN i
    ELSE LitEnd(s, i + 1, dbl, bq)

RECURSIVE ParseParts(_, _, _, _, _, _)
RECURSIVE ParseCallWords(_, _, _, _, _)
RECURSIVE ParseStmtPipe(_, _, _)
RECURSIVE ParseStmt(_, _, _, _, _)
RECURSIVE AndOrLoop(_, _, _, _, _)
RECURSIVE ParseStmtList(_, _, _, _)

\* The word goes on at pos, after part.
MoreParts(s, pos, dbl, bq, acc, lit, part) ==
    ParseParts(s, pos, dbl, bq, Append(FlushLit(acc, lit), part), "")

\* After '...' or ${...} opened at i, whose closing character is at j
\* (0: there is none).
AfterSglQuoted(s, i, j, dbl, bq, acc, lit) ==
    IF j = 0 THEN Fail
    ELSE MoreParts(s, j + 1, dbl, bq, acc, lit, SglPart(SubSeq(s, i + 1, j - 1)))

AfterBraces(s, i, j, dbl, bq, acc, lit) ==
    IF j = 0 THEN Fail
    ELSE MoreParts(s, j + 1, dbl, bq, acc, lit,
             ParamPart(SubSeq(s, i + 2, j - 1)))

\* After $NAME, the name ending before j.
AfterName(s, i, j, dbl, bq, acc, lit) ==
    MoreParts(s, j, dbl, bq, acc, lit, ParamPart(SubSeq(s, i + 1, j - 1)))

\* After "...", read as r.
AfterDblQuoted(s, r, dbl, bq, acc, lit) ==
    IF ~r.ok THEN Fail
    ELSE MoreParts(s, r.pos, dbl, bq, acc, lit, DblPart(r.val))

\* After the statements r of a command substitution that close must end.
AfterCmdSubst(s, r, close, dbl, bq, acc, lit) ==
    IF ~r.ok \/ Ch(s, r.pos) # close THEN Fail
    ELSE MoreParts(s, r.pos + 1, dbl, bq, acc, lit, SubstPart(r.val))

\* After the literal characters from i up to j, exclusive.
AfterLit(s, i, j, dbl, bq, acc, lit) ==
    ParseParts(s, j, dbl, bq, acc, lit \o SubSeq(s, i, j - 1))

\* The parts of one word from position i; dbl is TRUE inside "...".
ParseParts(s, i, dbl, bq, acc, lit) ==
    LET c == Ch(s, i)
        n == Ch(s, i + 1)
    IN  IF dbl /\ c = "" THEN Fail
        ELSE IF dbl /\ c = "\"" THEN Got(FlushLit(acc, lit), i + 1)
        ELSE IF ~dbl /\ WordEnd(c, bq) THEN Got(FlushLit(acc, lit), i)
        ELSE IF ~dbl /\ c = "'" THEN
            AfterSglQuoted(s, i, IndexFrom(s, "'", i + 1), dbl, bq, acc, lit)
        ELSE IF ~dbl /\ c = "\"" THEN
            AfterDblQuoted(s, ParseParts(s, i + 1, TRUE, bq, <<>>, ""),
                dbl, bq, acc, lit)
        ELSE IF c = "$" /\ n = "(" THEN
            AfterCmdSubst(s, ParseStmtList(s, i + 2, bq, <<>>), ")",
                dbl, bq, acc, lit)
        ELSE IF c = Backquote THEN
            IF bq THEN Fail
            ELSE AfterCmdSubst(s, ParseStmtList(s, i + 1, TRUE, <<>>),
                     Backquote, dbl, bq, acc, lit)
        ELSE IF c = "$" /\ n = "{" THEN
            AfterBraces(s, i, IndexFrom(s, "}", i + 2), dbl, bq, acc, lit)
        ELSE IF c = "$" /\ n \in NameStart THEN
            AfterName(s, i, NameEnd(s, i + 1), dbl, bq, acc, lit)
        ELSE AfterLit(s, i, LitEnd(s, i + 1, dbl, bq), dbl, bq, acc, lit)

\* A word NAME=value standing before the command name is an assignment.
IsAssignLit(v) == Ch(v, 1) \in NameStart /\ Ch(v, NameEnd(v, 1)) = "="

IsAssignWord(parts) ==
    Len(parts) > 0 /\ parts[1].t = "Lit" /\ IsAssignLit(parts[1].v)

\* The simple command read when its words end at pos.
CallDone(assigns, args, pos) ==
    IF Len(assigns) = 0 /\ Len(args) = 0 THEN Nothing(pos)
    ELSE Got(CallNode(assigns, args), pos)

\* After the word r read at p.
AfterWord(s, p, r, bq, assigns, args) ==
    IF ~r.ok THEN Fail
    ELSE IF Len(r.val) = 0 THEN CallDone(assigns, args, p)
    ELSE IF Len(args) = 0 /\ IsAssignWord(r.val)
         THEN ParseCallWords(s, r.pos, bq, Append(assigns, r.val), args)
    ELSE ParseCallWords(s, r.pos, bq, assigns, Append(args, r.val))

WordAt(s, p, bq, assigns, args) ==
    IF Ch(s, p) = "#" THEN CallDone(assigns, args, Len(s) + 1)
    ELSE AfterWord(s, p, ParseParts(s, p, FALSE, bq, <<>>, ""), bq,
             assigns, args)

\* The words of a simple command: assignments, then arguments.
ParseCallWords(s, i, bq, assigns, args) ==
    WordAt(s, SkipSpaces(s, i), bq, assigns, args)

\* After the statements r of a subshell.
AfterSubshell(s, r) ==
    IF ~r.ok \/ Ch(s, r.pos) # ")" \/ Len(r.val) = 0 THEN Fail
    ELSE Got(SubshellNode(r.val), r.pos + 1)

CommandAt(s, p, bq) ==
    IF Ch(s, p) = "(" THEN AfterSubshell(s, ParseStmtList(s, p + 1, bq, <<>>))
    ELSE ParseCallWords(s, p, bq, <<>>, <<>>)

\* A command: a subshell or a simple command.
ParseCommand(s, i, bq) == CommandAt(s, SkipSpaces(s, i), bq)

\* After the right side y of a pipe.
AfterPipe(x, op, y) ==
    IF ~y.ok \/ y.none THEN Fail
    ELSE Got(StmtNode(BinaryNode(op, x, y.val), FALSE), y.pos)

PipeOp(s, p) == IF Ch(s, p + 1) = "&" THEN "|&" ELSE "|"

\* After the command x, read up to p.
PipeAt(s, p, x, bq) ==
    IF Ch(s, p) = "|" /\ Ch(s, p + 1) # "|"
    THEN AfterPipe(x, PipeOp(s, p),
             ParseStmtPipe(s, p + Len(PipeOp(s, p)), bq))
    ELSE Got(x, p)

AfterCommand(s, c, bq) ==
    IF ~c.ok THEN Fail
    ELSE IF c.none THEN c
    ELSE PipeAt(s, SkipSpaces(s, c.pos), StmtNode(c.val, FALSE), bq)

\* gotStmtPipe: a command and the pipeline it starts, nested to the right.
ParseStmtPipe(s, i, bq) == AfterCommand(s, ParseCommand(s, i, bq), bq)

\* After the right side y of && or ||.
AfterAndOr(s, x, op, y, binCmd, bq) ==
    IF ~y.ok \/ y.none THEN Fail
    ELSE AndOrLoop(s, StmtNode(BinaryNode(op, x, y.val), FALSE), y.pos,
             binCmd, bq)

AndOrAt(s, x, p, binCmd, bq) ==
    IF p + 1 <= Len(s) /\ SubSeq(s, p, p + 1) \in {"&&", "||"} THEN
        IF binCmd THEN Got(x, p)
        ELSE AfterAndOr(s, x, SubSeq(s, p, p + 1),
                 ParseStmt(s, p + 2, TRUE, FALSE, bq), binCmd, bq)
    ELSE Got(x, p)

\* The && and || of getStmt, iterated so that the list nests to the left.
AndOrLoop(s, x, i, binCmd, bq) == AndOrAt(s, x, SkipSpaces(s, i), binCmd, bq)

\* The end of a statement r: its ; or &.
StmtEnd(s, r, readEnd) ==
    IF ~r.ok THEN Fail
    ELSE IF ~readEnd THEN r
    ELSE IF Ch(s, r.pos) = ";" THEN
        IF Ch(s, r.pos + 1) = ";" THEN Fail
        ELSE [r EXCEPT !.pos = r.pos + 1, !.term = TRUE]
    ELSE IF Ch(s, r.pos) = "&" THEN
        [r EXCEPT !.val = StmtNode(r.val.cmd, TRUE),
                  !.pos = r.pos + 1, !.term = TRUE]
    ELSE r

AfterStmtPipe(s, x, binCmd, readEnd, bq) ==
    IF ~x.ok THEN Fail
    ELSE IF x.none THEN x
    ELSE StmtEnd(s, AndOrLoop(s, x.val, x.pos, binCmd, bq), readEnd)

\* getStmt
ParseStmt(s, i, binCmd, readEnd, bq) ==
    AfterStmtPipe(s, ParseStmtPipe(s, i, bq), binCmd, readEnd, bq)

AfterStmt(s, r, bq, acc) ==
    IF ~r.ok THEN Fail
    ELSE IF r.none THEN Got(acc, r.pos)
    ELSE IF ~r.term THEN Got(Append(acc, r.val), r.pos)
    ELSE ParseStmtList(s, r.pos, bq, Append(acc, r.val))

\* stmtList: statements up to the end of input or the closing ) or backquote.
ParseStmtList(s, i, bq, acc) ==
    AfterStmt(s, ParseStmt(s, i, FALSE, TRUE, bq), bq, acc)

FileOf(command, r) ==
    IF r.ok /\ r.pos > Len(command)
    THEN [err |-> FALSE, Stmts |-> r.val]
    ELSE [err |-> TRUE, Stmts |-> <<>>]

\* Parser.Parse: the statements of the file, or a syntax error.
ParseFile(command) == FileOf(command, ParseStmtList(command, 1, FALSE, <<>>))

(***************************************************************************)
(* syntax.Walk visits the tree in pre-order.  Of the nodes it visits, the  *)
(* callbacks of ParseShellCommand and extractWithOperators act on Stmt,    *)
(* CallExpr, BinaryCmd and CmdSubst only; WalkStmts lists those, in visit  *)
(* order.                                                                  *)
(***************************************************************************)
StmtVisit(bg)   == [t |-> "Stmt", Background |-> bg, Op |-> "", Args |-> <<>>]
CallVisit(args) == [t |-> "CallExpr", Background |-> FALSE, Op |-> "", Args |-> args]
BinVisit(op)    == [t |-> "BinaryCmd", Background |-> FALSE, Op |-> op, Args |-> <<>>]
SubstVisit      == [t |-> "CmdSubst", Background |-> FALSE, Op |-> "", Args |-> <<>>]

RECURSIVE WalkStmts(_)
RECURSIVE WalkStmt(_)
RECURSIVE WalkParts(_)
RECURSIVE WalkWords(_)

\* A walk that does not descend into double quotes.
RECURSIVE WalkPartsUnquoted(_)
WalkPartsUnquoted(parts) ==
    IF Len(parts) = 0 THEN <<>>
    ELSE (IF parts[1].t = "CmdSubst"
          THEN <<SubstVisit>> \o WalkStmts(parts[1].stmts)
          ELSE <<>>) \o WalkPartsUnquoted(Tail(parts))

WalkParts(parts) ==
    IF Len(parts) = 0 THEN <<>>
    ELSE LET p == parts[1]
             here == CASE p.t = "DblQuoted" -> WalkParts(p.parts)
                       [] p.t = "CmdSubst"  -> <<SubstVisit>> \o WalkStmts(p.stmts)
                       [] OTHER             -> <<>>
         IN  here \o WalkParts(Tail(parts))

WalkWords(words) ==
    IF Len(words) = 0 THEN <<>>
    ELSE WalkParts(words[1]) \o WalkWords(Tail(words))

WalkStmt(st) ==
    LET c == st.cmd
        below ==
            CASE c.t = "CallExpr"  ->
                     <<CallVisit(c.args)>> \o WalkWords(c.assigns)
                         \o WalkWords(c.args)
              [] c.t = "BinaryCmd" ->
                     <<BinVisit(c.op)>> \o WalkStmt(c.x[1]) \o WalkStmt(c.y[1])
              [] c.t = "Subshell"  -> WalkStmts(c.stmts)
    IN  <<StmtVisit(st.Background)>> \o below

WalkStmts(stmts) ==
    IF Len(stmts) = 0 THEN <<>>
    ELSE WalkStmt(stmts[1]) \o WalkStmts(Tail(stmts))

(***************************************************************************)
(* parser/shell.go                                                         *)
(***************************************************************************)
RECURSIVE partToString(_)
RECURSIVE wordToString(_)

partToString(p) ==
    CASE p.t = "Lit"       -> p.v
      [] p.t = "SglQuoted" -> p.v
      [] p.t = "DblQuoted" -> wordToString(p.parts)
      [] p.t = "ParamExp"  -> "${" \o p.v \o "}"
      [] p.t = "CmdSubst"  -> "$(...)"
      [] OTHER             -> ""

wordToString(parts) ==
    IF Len(parts) = 0 THEN ""
    ELSE partToString(parts[1]) \o wordToString(Tail(parts))

ParsedCommand(name, args, raw, operator) ==
    [Name |-> name, Args |-> args, Raw |-> raw, Operator |-> operator]

extractCommand(words) ==
    LET args == [k \in 1..Len(words) |-> wordToString(words[k])]
    IN  IF Len(args) > 0
        THEN ParsedCommand(args[1], args, Join(args, " "), "")
        ELSE ParsedCommand("", args, "", "")

\* The first walk: the commands with a non-empty name, in visit order.
RECURSIVE CollectCommands(_)
CollectCommands(visits) ==
    IF Len(visits) = 0 THEN <<>>
    ELSE LET v   == visits[1]
             cmd == extractCommand(v.Args)
         IN  (IF v.t = "CallExpr" /\ cmd.Name # "" THEN <<cmd>> ELSE <<>>)
                 \o CollectCommands(Tail(visits))

\* The second walk; idx counts from 0 as in the source.
RECURSIVE OperatorWalk(_, _, _)
OperatorWalk(visits, idx, result) ==
    IF Len(visits) = 0 THEN result
    ELSE LET v == visits[1]
         IN  IF v.t = "BinaryCmd" /\ idx < Len(result) THEN
                 OperatorWalk(Tail(visits), idx + 1,
                     [result EXCEPT ![idx + 1].Operator = v.Op])
             ELSE IF /\ v.t = "Stmt"
                     /\ idx > 0
                     /\ idx < Len(result)
                     /\ result[idx].Operator = ""
                  THEN OperatorWalk(Tail(visits), idx,
                           [result EXCEPT ![idx].Operator = ";"])
             ELSE OperatorWalk(Tail(visits), idx, result)

extractWithOperators(visits, commands) ==
    IF Len(commands) = 0 THEN commands
    ELSE OperatorWalk(visits, 0, commands)

\* The statement returned on a syntax error is nil; NoStatement stands for it.
NoStatement ==
    [err |-> TRUE, Commands |-> <<>>, Raw |-> "", HasPipe |-> FALSE,
     HasBackground |-> FALSE, HasSubshell |-> FALSE]

ParseShellCommand(command) ==
    LET file == ParseFile(command)
    IN  IF file.err THEN NoStatement
        ELSE LET visits == WalkStmts(file.Stmts)
                 has(P(_)) == \E k \in 1..Len(visits) : P(visits[k])
                 isPipe(v) == v.t = "BinaryCmd" /\ v.Op \in {"|", "|&"}
                 isBg(v)   == v.t = "Stmt" /\ v.Background
                 isSub(v)  == v.t = "CmdSubst"
             IN  [err           |-> FALSE,
                  Commands      |-> extractWithOperators(visits,
                                        CollectCommands(visits)),
                  Raw           |-> command,
                  HasPipe       |-> has(isPipe),
                  HasBackground |-> has(isBg),
                  HasSubshell   |-> has(isSub)]

\* The command name taken whole, path and all.
wholeName(cmd) == cmd.Name

GetCommandName(cmd) ==
    LET name == cmd.Name
    IN  IF Contains(name, "/")
        THEN SubSeq(name, LastSlash(name, Len(name)) + 1, Len(name))
        ELSE name

valueFlagsByCommand(cmdName) ==
    CASE cmdName = "git"     -> {"-C", "--git-dir", "--work-tree", "-c"}
      [] cmdName = "dotnet"  -> {"--project", "-p"}
      [] cmdName = "glab"    -> {"-R", "--repo"}
      [] cmdName = "gh"      -> {"-R", "--repo"}
      [] cmdName = "timeout" -> {"-k", "-s", "--signal", "--kill-after"}
      [] cmdName = "sudo"    -> {"-u", "-g", "-h", "-p", "-U"}
      [] cmdName = "env"     -> {"-u", "-C"}
      [] OTHER               -> {}

\* A table of value flags that registers none.
noFlagTakesValue(cmdName, flag) == FALSE

flagTakesValue(cmdName, flag) == flag \in valueFlagsByCommand(cmdName)

subcommandCommands ==
    {"git", "dotnet", "glab", "gh", "npm", "pnpm", "yarn", "cargo",
     "kubectl", "terraform", "docker", "az", "dotnet-ef"}

isSubcommandCommand(cmdName) == cmdName \in subcommandCommands

\* No argument taken for an assignment.
neverEnvAssignment(arg) == FALSE

isEnvAssignment(arg) == Contains(arg, "=") /\ ~HasPrefix(arg, "=")

\* A reading of isNumeric that takes one digit only.
isOneDigit(s) == Len(s) = 1 /\ Ch(s, 1) \in Digits

isNumeric(s) ==
    /\ \A k \in 1..Len(s) : Ch(s, k) \in Digits
    /\ Len(s) > 0

\* The loop of GetSubcommand over args = cmd.Args[1:], from index i (0-based).
RECURSIVE SubcommandLoop(_, _, _)
SubcommandLoop(cmdName, args, i) ==
    IF i >= Len(args) THEN ""
    ELSE LET arg == args[i + 1]
         IN  IF HasPrefix(arg, "-") THEN
                 IF flagTakesValue(cmdName, arg) /\ i + 1 < Len(args)
                 THEN SubcommandLoop(cmdName, args, i + 2)
                 ELSE SubcommandLoop(cmdName, args, i + 1)
             ELSE arg

GetSubcommand(cmd) ==
    IF Len(cmd.Args) > 1
    THEN SubcommandLoop(GetCommandName(cmd), Tail(cmd.Args), 0)
    ELSE ""

wrappers == {"timeout", "env", "sudo", "nice", "nohup", "time"}

\* The wrapper loop of CommandSignature: the index (0-based) of the inner
\* command in args, -1 when there is none.  Indices are shifted by one so
\* that the result is a natural number: 0 stands for -1.
RECURSIVE ActualIdxLoop(_, _, _)
ActualIdxLoop(name, args, i) ==
    IF i >= Len(args) THEN 0
    ELSE LET arg == args[i + 1]
         IN  IF HasPrefix(arg, "-") THEN
                 IF flagTakesValue(name, arg) /\ i + 1 < Len(args)
                 THEN ActualIdxLoop(name, args, i + 2)
                 ELSE ActualIdxLoop(name, args, i + 1)
             ELSE IF name = "timeout" /\ isNumeric(arg)
                  THEN ActualIdxLoop(name, args, i + 1)
             ELSE IF name = "env" /\ isEnvAssignment(arg)
                  THEN ActualIdxLoop(name, args, i + 1)
             ELSE i + 1

\* The subcommand as the signature shows it.
ShownSubcommand(cmd) ==
    LET subCmd == GetSubcommand(cmd)
    IN  IF subCmd # "" /\ ~HasPrefix(subCmd, "-") /\ ~HasPrefix(subCmd, "/")
        THEN " " \o subCmd
        ELSE ""

CommandSignature(cmd) ==
    LET name == GetCommandName(cmd)
        args == Tail(cmd.Args)
        at   == IF name \in wrappers THEN ActualIdxLoop(name, args, 0) ELSE 0
    IN  IF at > 0 THEN
            LET actualArgs == SubSeq(args, at, Len(args))
                actualCmd  == ParsedCommand(actualArgs[1], actualArgs,
                                  Join(actualArgs, " "), "")
                actualName == GetCommandName(actualCmd)
            IN  IF isSubcommandCommand(actualName)
                THEN name \o " " \o actualName \o ShownSubcommand(actualCmd)
                ELSE name \o " " \o actualName
        ELSE IF isSubcommandCommand(name)
             THEN name \o ShownSubcommand(cmd)
             ELSE name

(***************************************************************************)
(* config: a Rule as Load leaves it, every pattern compiled.  A legacy     *)
(* regex field is compiled only when it is not empty, so that the compiled *)
(* regex is nil exactly when the field is "".                              *)
(***************************************************************************)
AnyRule(tool, cmds, pats, excl, paths, pathExcl, re, exclRe, pathRe, pathExclRe, desc) ==
    [Tool                 |-> tool,
     Commands             |-> cmds,
     CommandPatterns      |-> pats,
     ExcludePatterns      |-> excl,
     PathPatterns         |-> paths,
     PathExcludePatterns  |-> pathExcl,
     CommandRegex         |-> re,
     CommandExcludeRegex  |-> exclRe,
     FilePathRegex        |-> pathRe,
     FilePathExcludeRegex |-> pathExclRe,
     Description          |-> desc]

\* A rule with the command fields only, and one with the path fields only.
Rule(tool, commands, patterns, excludes, regex, excludeRegex, description) ==
    AnyRule(tool, commands, patterns, excludes, <<>>, <<>>, regex,
        excludeRegex, "", "", description)

PathRule(tool, paths, pathExcludes, pathRegex, pathExcludeRegex, description) ==
    AnyRule(tool, <<>>, <<>>, <<>>, paths, pathExcludes, "", "", pathRegex,
        pathExcludeRegex, description)

(***************************************************************************)
(* matcher/matcher.go                                                      *)
(***************************************************************************)
DecisionAllow       == "allow"
DecisionDeny        == "deny"
DecisionPassthrough == "passthrough"

MatchResult(decision, reason, matchedRule, details) ==
    [Decision |-> decision, Reason |-> reason, MatchedRule |-> matchedRule,
     Details |-> details]

\* A matching that knows the exact comparison only.
matchExactSignature(pattern, sig, cmd) ==
    pattern = sig

\* A matching that also looks for the pattern among the words a command runs.
matchAnyWord(pattern, sig, cmd) ==
    \/ pattern = sig
    \/ \E k \in 1..Len(cmd.Args) : cmd.Args[k] = pattern

matchCommandSignature(pattern, sig, cmd) ==
    \/ pattern = sig
    \/ /\ HasSuffix(pattern, " *")
       /\ LET prefix == TrimSuffix(pattern, " *")
          IN  HasPrefix(sig, prefix) \/ GetCommandName(cmd) = prefix
    \/ Contains(pattern, " ") /\ HasPrefix(sig, pattern \o " ")
    \/ ~Contains(pattern, " ") /\ pattern = GetCommandName(cmd)

matchesExcludePatterns(rule, command) ==
    \E k \in 1..Len(rule.ExcludePatterns) :
        MatchString(rule.ExcludePatterns[k], command)

\* The least element of a non-empty set of numbers.
Least(S) == CHOOSE k \in S : \A j \in S : k <= j

\* What one allow rule says of one command: a MatchResult with Decision
\* allow, or NoMatch when the loop goes on to the next rule.
NoMatch == MatchResult("", "", "", "")

AllowRuleResult(rule, cmd, sig) ==
    LET listed == {k \in 1..Len(rule.Commands) :
                      matchCommandSignature(rule.Commands[k], sig, cmd)}
        byPattern == \E k \in 1..Len(rule.CommandPatterns) :
                         MatchString(rule.CommandPatterns[k], cmd.Raw)
        excluded == matchesExcludePatterns(rule, cmd.Raw)
    IN  IF listed # {} /\ ~excluded THEN
            MatchResult(DecisionAllow, "Command matches allowed signature",
                rule.Description, "Matched: " \o rule.Commands[Least(listed)])
        ELSE IF byPattern /\ ~excluded THEN
            MatchResult(DecisionAllow, "Command matches allowed pattern",
                rule.Description, "")
        ELSE IF /\ rule.CommandRegex # ""
                /\ MatchString(rule.CommandRegex, cmd.Raw)
                /\ ~(/\ rule.CommandExcludeRegex # ""
                     /\ MatchString(rule.CommandExcludeRegex, cmd.Raw))
        THEN MatchResult(DecisionAllow, "Command matches allowed regex",
                 rule.Description, "")
        ELSE NoMatch

\* The loop of checkSingleCommand without its test of rule.Tool.
RECURSIVE AllowLoopAnyTool(_, _, _, _)
AllowLoopAnyTool(allow, i, cmd, sig) ==
    IF i > Len(allow) THEN
        MatchResult(DecisionPassthrough, "No allow rule matched", "",
            "Command signature: " \o sig)
    ELSE LET r == AllowRuleResult(allow[i], cmd, sig)
         IN  IF r.Decision = DecisionAllow THEN r
             ELSE AllowLoopAnyTool(allow, i + 1, cmd, sig)

RECURSIVE AllowLoop(_, _, _, _)
AllowLoop(allow, i, cmd, sig) ==
    IF i > Len(allow) THEN
        MatchResult(DecisionPassthrough, "No allow rule matched", "",
            "Command signature: " \o sig)
    ELSE IF allow[i].Tool # "Bash" THEN AllowLoop(allow, i + 1, cmd, sig)
    ELSE LET r == AllowRuleResult(allow[i], cmd, sig)
         IN  IF r.Decision = DecisionAllow THEN r
             ELSE AllowLoop(allow, i + 1, cmd, sig)

checkSingleCommand(cfg, cmd) ==
    AllowLoop(cfg.Allow, 1, cmd, CommandSignature(cmd))

\* A deny matching that tests command_patterns against the raw text of each
\* command instead of the full statement text.
matchBashRuleByCommand(rule, fullCmd, stmt) ==
    \/ \E c \in 1..Len(stmt.Commands) :
           \E k \in 1..Len(rule.CommandPatterns) :
               MatchString(rule.CommandPatterns[k], stmt.Commands[c].Raw)
    \/ /\ rule.CommandRegex # ""
       /\ MatchString(rule.CommandRegex, fullCmd)
       /\ ~(/\ rule.CommandExcludeRegex # ""
            /\ MatchString(rule.CommandExcludeRegex, fullCmd))
    \/ \E c \in 1..Len(stmt.Commands) :
           \E k \in 1..Len(rule.Commands) :
               matchCommandSignature(rule.Commands[k],
                   CommandSignature(stmt.Commands[c]), stmt.Commands[c])

matchBashRule(rule, fullCmd, stmt) ==
    IF \E k \in 1..Len(rule.CommandPatterns) :
           MatchString(rule.CommandPatterns[k], fullCmd)
    THEN TRUE
    ELSE IF rule.CommandRegex # "" /\ MatchString(rule.CommandRegex, fullCmd)
    THEN IF rule.CommandExcludeRegex # ""
         THEN ~MatchString(rule.CommandExcludeRegex, fullCmd)
         ELSE TRUE
    ELSE \E c \in 1..Len(stmt.Commands) :
             \E k \in 1..Len(rule.Commands) :
                 matchCommandSignature(rule.Commands[k],
                     CommandSignature(stmt.Commands[c]), stmt.Commands[c])

\* The deny rules (by index) that the check for dangerous constructs stops
\* at: Bash rules with an exclude pattern matching the full command.
SubshellDenials(cfg, command) ==
    {i \in 1..Len(cfg.Deny) :
        /\ cfg.Deny[i].Tool = "Bash"
        /\ matchesExcludePatterns(cfg.Deny[i], command)}

\* The deny loop without its test of rule.Tool.
RuleDenialsAnyTool(cfg, command, stmt) ==
    {i \in 1..Len(cfg.Deny) : matchBashRule(cfg.Deny[i], command, stmt)}

\* The deny rules (by index) that the deny loop stops at.
RuleDenials(cfg, command, stmt) ==
    {i \in 1..Len(cfg.Deny) :
        /\ cfg.Deny[i].Tool = "Bash"
        /\ matchBashRule(cfg.Deny[i], command, stmt)}

\* A compound statement decided by its first command alone.
CompoundFirstOnly(cfg, stmt) ==
    IF checkSingleCommand(cfg, stmt.Commands[1]).Decision = DecisionAllow
    THEN MatchResult(DecisionAllow,
             "All commands in compound statement are allowed", "", "")
    ELSE MatchResult(DecisionPassthrough,
             "Not all commands in compound statement are allowed", "",
             "Command not allowed: " \o stmt.Commands[1].Raw)

\* A compound statement: each individual command must be allowed.
CompoundResult(cfg, stmt) ==
    LET failed == {k \in 1..Len(stmt.Commands) :
                      checkSingleCommand(cfg, stmt.Commands[k]).Decision
                          # DecisionAllow}
    IN  IF failed # {} THEN
            MatchResult(DecisionPassthrough,
                "Not all commands in compound statement are allowed", "",
                "Command not allowed: " \o stmt.Commands[Least(failed)].Raw)
        ELSE MatchResult(DecisionAllow,
                 "All commands in compound statement are allowed", "", "")

\* A statement without commands taken for an allowed one.
NoCommandsAllowed ==
    MatchResult(DecisionAllow, "No commands parsed", "", "")

\* The result for a statement without commands.
NoCommandsResult ==
    MatchResult(DecisionPassthrough, "No commands parsed", "", "")

\* MatchBashCommand after a successful parse.
\* A matching that tests the exclude patterns of the deny rules whether or
\* not the statement holds a command substitution.
MatchStatementUnguarded(cfg, command, stmt) ==
    LET early  == SubshellDenials(cfg, command)
        denied == RuleDenials(cfg, command, stmt)
    IN  IF early # {} THEN
            MatchResult(DecisionDeny, "Command contains denied pattern",
                cfg.Deny[Least(early)].Description,
                "Subshell detected and matched exclude pattern")
        ELSE IF denied # {} THEN
            MatchResult(DecisionDeny, "Command matched deny rule",
                cfg.Deny[Least(denied)].Description, "")
        ELSE IF Len(stmt.Commands) > 1 THEN CompoundResult(cfg, stmt)
        ELSE IF Len(stmt.Commands) = 1
             THEN checkSingleCommand(cfg, stmt.Commands[1])
        ELSE NoCommandsResult

MatchStatement(cfg, command, stmt) ==
    LET early  == IF stmt.HasSubshell THEN SubshellDenials(cfg, command) ELSE {}
        denied == RuleDenials(cfg, command, stmt)
    IN  IF early # {} THEN
            MatchResult(DecisionDeny, "Command contains denied pattern",
                cfg.Deny[Least(early)].Description,
                "Subshell detected and matched exclude pattern")
        ELSE IF denied # {} THEN
            MatchResult(DecisionDeny, "Command matched deny rule",
                cfg.Deny[Least(denied)].Description, "")
        ELSE IF Len(stmt.Commands) > 1 THEN CompoundResult(cfg, stmt)
        ELSE IF Len(stmt.Commands) = 1
             THEN checkSingleCommand(cfg, stmt.Commands[1])
        ELSE NoCommandsResult

\* MatchBashCommand going on after a parse failure, with the empty statement.
MatchUnparsed(cfg, command, stmt) == MatchStatement(cfg, command, stmt)

\* Details of a parse failure holds the parser's message, which the model
\* does not spell out.
MatchParsed(cfg, command, stmt) ==
    IF stmt.err THEN
        MatchResult(DecisionPassthrough, "Failed to parse command", "",
            "syntax error")
    ELSE MatchStatement(cfg, command, stmt)

MatchBashCommand(cfg, command) ==
    MatchParsed(cfg, command, ParseShellCommand(command))

\* What one deny rule says of a path: TRUE when MatchFilePath stops at it.
PathDenied(rule, filePath) ==
    \/ \E k \in 1..Len(rule.PathPatterns) :
           MatchString(rule.PathPatterns[k], filePath)
    \/ /\ rule.FilePathRegex # ""
       /\ MatchString(rule.FilePathRegex, filePath)
       /\ \/ rule.FilePathExcludeRegex = ""
          \/ ~MatchString(rule.FilePathExcludeRegex, filePath)

\* What one allow rule says of a path: TRUE when MatchFilePath stops at it.
PathAllowed(rule, filePath) ==
    \/ /\ \E k \in 1..Len(rule.PathPatterns) :
              MatchString(rule.PathPatterns[k], filePath)
       /\ ~\E k \in 1..Len(rule.PathExcludePatterns) :
               MatchString(rule.PathExcludePatterns[k], filePath)
    \/ /\ rule.FilePathRegex # ""
       /\ MatchString(rule.FilePathRegex, filePath)
       /\ ~(/\ rule.FilePathExcludeRegex # ""
            /\ MatchString(rule.FilePathExcludeRegex, filePath))

\* The path deny loop without its test of rule.Tool.
PathDenialsAnyTool(cfg, toolName, filePath) ==
    {i \in 1..Len(cfg.Deny) : PathDenied(cfg.Deny[i], filePath)}

\* The deny rules (by index) that the path deny loop stops at.
PathDenials(cfg, toolName, filePath) ==
    {i \in 1..Len(cfg.Deny) :
        /\ cfg.Deny[i].Tool = toolName
        /\ PathDenied(cfg.Deny[i], filePath)}

\* The allow rules (by index) that the path allow loop stops at.
PathAllowances(cfg, toolName, filePath) ==
    {i \in 1..Len(cfg.Allow) :
        /\ cfg.Allow[i].Tool = toolName
        /\ PathAllowed(cfg.Allow[i], filePath)}

\* The reason given is that of the field that matched.
MatchFilePath(cfg, toolName, filePath) ==
    LET denied  == PathDenials(cfg, toolName, filePath)
        allowed == PathAllowances(cfg, toolName, filePath)
        byPattern(rule) ==
            \E k \in 1..Len(rule.PathPatterns) :
                MatchString(rule.PathPatterns[k], filePath)
        byAllowPattern(rule) ==
            /\ byPattern(rule)
            /\ ~\E k \in 1..Len(rule.PathExcludePatterns) :
                    MatchString(rule.PathExcludePatterns[k], filePath)
    IN  IF denied # {} THEN
            MatchResult(DecisionDeny,
                IF byPattern(cfg.Deny[Least(denied)])
                THEN "Path matched deny rule" ELSE "Path matched deny regex",
                cfg.Deny[Least(denied)].Description, "")
        ELSE IF allowed # {} THEN
            MatchResult(DecisionAllow,
                IF byAllowPattern(cfg.Allow[Least(allowed)])
                THEN "Path matched allow pattern"
                ELSE "Path matched allow regex",
                cfg.Allow[Least(allowed)].Description, "")
        ELSE MatchResult(DecisionPassthrough, "No rule matched for path", "", "")

(***************************************************************************)
(* config: Load and Rule.compile.  The file is taken as read and        *)
(* decoded: file is the Config that toml.Decode filled in.                 *)
(***************************************************************************)

\* strconv.Itoa, as the verb %d of fmt.Errorf prints a rule index.
RECURSIVE Itoa(_)
Itoa(n) ==
    IF n < 10 THEN SubSeq("0123456789", n + 1, n + 1)
    ELSE Itoa(n \div 10) \o SubSeq("0123456789", (n % 10) + 1, (n % 10) + 1)

\* strconv.Quote, as the verb %q of fmt.Errorf prints a pattern.
RECURSIVE QuoteFrom(_, _)
QuoteFrom(s, i) ==
    IF i > Len(s) THEN ""
    ELSE IF Ch(s, i) = "\\" \/ Ch(s, i) = "\"" THEN
        "\\" \o Ch(s, i) \o QuoteFrom(s, i + 1)
    ELSE Ch(s, i) \o QuoteFrom(s, i + 1)

Quote(s) == "\"" \o QuoteFrom(s, 1) \o "\""

\* regexp.Compile: the code of the syntax error in the pattern, "" when the
\* pattern compiles.  depth counts the groups open at position i.
RECURSIVE SyntaxError(_, _, _)
SyntaxError(re, i, depth) ==
    IF i > Len(re) THEN
        IF depth > 0 THEN "missing closing )" ELSE ""
    ELSE IF Ch(re, i) = "\\" THEN
        IF i = Len(re) THEN "trailing backslash at end of expression"
        ELSE SyntaxError(re, i + 2, depth)
    ELSE IF Ch(re, i) = "(" THEN SyntaxError(re, i + 1, depth + 1)
    ELSE IF Ch(re, i) = ")" THEN
        IF depth = 0 THEN "unexpected )"
        ELSE SyntaxError(re, i + 1, depth - 1)
    ELSE IF Ch(re, i) = "[" THEN
        IF IndexFrom(re, "]", i + 2) = 0 THEN "missing closing ]"
        ELSE SyntaxError(re, IndexFrom(re, "]", i + 2) + 1, depth)
    ELSE IF Ch(re, i) = "*" /\ i = 1 THEN
        "missing argument to repetition operator"
    ELSE SyntaxError(re, i + 1, depth)

\* The error of regexp.Compile, "" when there is none.
CompileError(re) ==
    IF SyntaxError(re, 1, 0) = "" THEN ""
    ELSE "error parsing regexp: " \o SyntaxError(re, 1, 0)

\* The pattern fields of a rule in the order compile goes through them, each
\* with the name compile gives it in its error and the patterns it holds; a
\* legacy field left empty is not compiled.
PatternFields(r) ==
    <<[name |-> "command pattern",      patterns |-> r.CommandPatterns],
      [name |-> "exclude pattern",      patterns |-> r.ExcludePatterns],
      [name |-> "path pattern",         patterns |-> r.PathPatterns],
      [name |-> "path exclude pattern", patterns |-> r.PathExcludePatterns],
      [name |-> "command_regex",
       patterns |-> IF r.CommandRegex = "" THEN <<>> ELSE <<r.CommandRegex>>],
      [name |-> "command_exclude_regex",
       patterns |-> IF r.CommandExcludeRegex = "" THEN <<>>
                    ELSE <<r.CommandExcludeRegex>>],
      [name |-> "file_path_regex",
       patterns |-> IF r.FilePathRegex = "" THEN <<>>
                    ELSE <<r.FilePathRegex>>],
      [name |-> "file_path_exclude_regex",
       patterns |-> IF r.FilePathExcludeRegex = "" THEN <<>>
                    ELSE <<r.FilePathExcludeRegex>>]>>

\* The error of compiling the patterns of one field from the k-th on.
RECURSIVE compilePatterns(_, _, _)
compilePatterns(name, patterns, k) ==
    IF k > Len(patterns) THEN ""
    ELSE IF CompileError(patterns[k]) # "" THEN
        "invalid " \o name \o " " \o Quote(patterns[k]) \o ": "
            \o CompileError(patterns[k])
    ELSE compilePatterns(name, patterns, k + 1)

\* The error of compiling the fields of a rule from the f-th on.
RECURSIVE compileFields(_, _)
compileFields(fields, f) ==
    IF f > Len(fields) THEN ""
    ELSE IF compilePatterns(fields[f].name, fields[f].patterns, 1) # "" THEN
        compilePatterns(fields[f].name, fields[f].patterns, 1)
    ELSE compileFields(fields, f + 1)

\* A compile that goes through the pattern lists of a rule and leaves its
\* legacy fields alone.
compileListsOnly(r) == compileFields(SubSeq(PatternFields(r), 1, 4), 1)

\* Rule.compile: the error it returns, "" for nil.
compile(r) == compileFields(PatternFields(r), 1)

\* The error of compiling the rules of one list from the i-th on; %d prints
\* the index of the rule, which counts from 0.
RECURSIVE compileRules(_, _, _)
compileRules(list, rules, i) ==
    IF i > Len(rules) THEN ""
    ELSE IF compile(rules[i]) # "" THEN
        "error compiling " \o list \o " rule " \o Itoa(i - 1) \o ": "
            \o compile(rules[i])
    ELSE compileRules(list, rules, i + 1)

\* The nil *Config.
NoConfig == [nil |-> TRUE]

\* The defaults Load sets: an [audit] table without a level has the level
\* matched.  A file without the table decodes to no audit file.
withDefaults(file) ==
    IF "Audit" \in DOMAIN file /\ file.Audit.AuditLevel = ""
    THEN [file EXCEPT !.Audit.AuditLevel = "matched"]
    ELSE file

\* The audit settings of a loaded configuration.
AuditConfig(cfg) ==
    IF "Audit" \in DOMAIN cfg THEN cfg.Audit
    ELSE [AuditFile |-> "", AuditLevel |-> "matched"]

\* Load: the Config and the error it returns.
Load(file) ==
    IF compileRules("allow", file.Allow, 1) # "" THEN
        [cfg |-> NoConfig, err |-> compileRules("allow", file.Allow, 1)]
    ELSE IF compileRules("deny", file.Deny, 1) # "" THEN
        [cfg |-> NoConfig, err |-> compileRules("deny", file.Deny, 1)]
    ELSE [cfg |-> withDefaults(file), err |-> ""]

(***************************************************************************)
(* main: runCmd after the configuration is loaded, and hook's output.      *)
(***************************************************************************)
HookOutput(decision, reason) ==
    [PermissionDecision |-> decision, PermissionDecisionReason |-> reason]

\* An output that allows whatever is not denied.
WriteAllowUnlessDenied(result) ==
    IF result.Decision = DecisionDeny
    THEN HookOutput("deny", result.Reason)
    ELSE HookOutput("allow", result.Reason)

\* What runCmd writes for a MatchResult.
WriteDecision(result) ==
    LET reason == IF result.MatchedRule # ""
                  THEN result.MatchedRule \o ": " \o result.Reason
                  ELSE result.Reason
    IN  IF result.Decision = DecisionAllow THEN HookOutput("allow", reason)
        ELSE IF result.Decision = DecisionDeny THEN HookOutput("deny", reason)
        ELSE HookOutput("ask", "")

\* The MatchResult runCmd gets for a request; the zero MatchResult when it
\* writes a passthrough and returns without asking the matcher.
Evaluate(cfg, toolName, command, filePath) ==
    IF toolName = "Bash" THEN
        IF command = "" THEN MatchResult("", "", "", "")
        ELSE MatchBashCommand(cfg, command)
    ELSE IF toolName \in {"Read", "Write", "Edit"} THEN
        IF filePath = "" THEN MatchResult("", "", "", "")
        ELSE MatchFilePath(cfg, toolName, filePath)
    ELSE MatchResult("", "", "", "")

(***************************************************************************)
(* The state machine.  One request is decided against one loaded           *)
(* configuration: cfg and command are the inputs, stmt the statement       *)
(* MatchBashCommand parsed and result the MatchResult it returned.         *)
(* toolName and filePath are the inputs of a request for a file tool.      *)
(* words and sigs serve the signature runs: the words the command text was *)
(* assembled from, and the signature of each parsed command.               *)
(* file, err, exit and out serve the load runs: the decoded configuration  *)
(* file, the error of Load, the exit of the process and the decisions      *)
(* written to stdout.  calls holds the concurrent calls on one Matcher.    *)
(* subs holds the subcommand of each parsed command, audit the audit file, *)
(* stdin what the run command finds on its standard input.                 *)
(***************************************************************************)
VARIABLES cfg, toolName, command, filePath, stmt, result, words, sigs, pc,
          file, err, exit, out, calls, subs, audit, stdin

vars == <<cfg, toolName, command, filePath, stmt, result, words, sigs, pc,
          file, err, exit, out, calls, subs, audit, stdin>>

\* The audit file: whether it can be opened for appending, and the entries
\* appended to it.
AuditFile(writable) == [writable |-> writable, entries |-> <<>>]

\* The process has not exited; it has exited with a code.
Running == [exited |-> FALSE, code |-> 0]

Exited(code) == [exited |-> TRUE, code |-> code]

\* Load returned cfg for the file and the process has written nothing yet.
AlreadyLoaded ==
    /\ file = cfg
    /\ err = ""
    /\ exit = Running
    /\ out = <<>>
    /\ calls = <<>>
    /\ subs = <<>>
    /\ audit = AuditFile(TRUE)
    /\ stdin = "json"

\* Bounds of the model.
MaxRules  == 2      \* rules in the allow list, and in the deny list
MaxDigits == 2      \* digits of a timeout duration
MaxTrail  == 2      \* arguments after the subcommand

\* The sequences without repetition of at most n elements of S.
RECURSIVE Arrangements(_, _)
Arrangements(S, n) ==
    IF n = 0 THEN {<<>>}
    ELSE LET shorter == Arrangements(S, n - 1)
             longest == {q \in shorter : Len(q) = n - 1}
         IN  shorter \cup
             {Append(pr[1], pr[2]) :
                 pr \in {pr \in longest \X S :
                            \A k \in 1..Len(pr[1]) : pr[1][k] # pr[2]}}

\* The sequences of at most n elements of S.
RECURSIVE SeqsUpTo(_, _)
SeqsUpTo(S, n) ==
    IF n = 0 THEN {<<>>}
    ELSE LET shorter == SeqsUpTo(S, n - 1)
         IN  shorter \cup
             {Append(q, e) : q \in {q \in shorter : Len(q) = n - 1}, e \in S}

DenyRules ==
    {Rule("Bash", <<"git push">>, <<>>, <<>>, "", "", "deny-push"),
     Rule("Bash", <<"rm">>, <<>>, <<>>, "push", "origin", "deny-legacy"),
     Rule("Bash", <<>>, <<"rm -rf">>, <<"push">>, "", "", "deny-text"),
     Rule("Read", <<"git status">>, <<"git">>, <<"echo">>, "", "", "deny-read")}

AllowRules ==
    {Rule("Bash", <<"git add", "git commit", "git status">>, <<>>,
          <<";", "&">>, "", "", "git-safe"),
     Rule("Bash", <<"git", "echo">>, <<>>, <<>>, "", "", "all-git"),
     Rule("Bash", <<>>, <<"^git commit">>, <<";">>, "^git", "push",
          "legacy-git"),
     Rule("Read", <<"rm", "echo", "git">>, <<>>, <<>>, "rm", "", "read-any")}

Configs ==
    {[Allow |-> a, Deny |-> d] :
        a \in Arrangements(AllowRules, MaxRules),
        d \in Arrangements(DenyRules, MaxRules)}

EmptyConfig == [Allow |-> <<>>, Deny |-> <<>>]

Statements ==
    {"git status",
     "git push origin main",
     "git commit -m 'a;b'",
     "rm -rf /",
     "git add -A && git commit -m x",
     "git add -A && git push",
     "git add -A && git rebase",
     "git add -A; git commit -m x",
     "git add -A; rm -rf /",
     "git add -A & echo x",
     "git push origin main; rm -rf /",
     "git status | echo x",
     "echo $(git push)",
     "echo $(git status)",
     "",
     "# rm -rf /",
     "X=1",
     "push=$()",
     "git rm -rf / &&",
     "echo 'git push",
     "echo $(rm origin/push)",
     "echo " \o Backquote \o "git status" \o Backquote
         \o "; (git add -A) && git commit -m \"$(git push)\""}

\* timeout N inner sub args...
Durations == SeqsUpTo({"0", "3", "9"}, MaxDigits) \ {<<>>}
Inners    == {"dotnet", "/usr/bin/git", "npm", "~/.dotnet/tools/dotnet-ef"}
Subs      == {"run", "status", "migrations"}
Trails    == SeqsUpTo({"--project", "x", "-c", "30"}, MaxTrail)

TimeoutWords ==
    {<<"timeout", Concat(n), inner, sub>> \o trail :
        n \in Durations, inner \in Inners, sub \in Subs, trail \in Trails}

NoResult == MatchResult("", "", "", "")

Init ==
    /\ cfg \in Configs
    /\ AlreadyLoaded
    /\ toolName = "Bash"
    /\ command \in Statements
    /\ filePath = ""
    /\ stmt = NoStatement
    /\ result = NoResult
    /\ words = <<>>
    /\ sigs = <<>>
    /\ pc = "ready"

\* runCmd, case "Bash": result = m.MatchBashCommand(cmd)
MatchBash ==
    /\ pc = "ready"
    /\ stmt' = ParseShellCommand(command)
    /\ result' = MatchParsed(cfg, command, stmt')
    /\ pc' = "done"
    /\ UNCHANGED <<file, err, exit, out, calls, cfg, toolName, command, filePath, words, sigs, subs, audit, stdin>>

Next == MatchBash

Spec == Init /\ [][Next]_vars

\* The signature runs: a command text is parsed and each command signed.
SigInit ==
    /\ cfg = EmptyConfig
    /\ AlreadyLoaded
    /\ toolName = "Bash"
    /\ filePath = ""
    /\ words \in TimeoutWords
    /\ command = Join(words, " ")
    /\ stmt = NoStatement
    /\ result = NoResult
    /\ sigs = <<>>
    /\ pc = "unsigned"

Sign ==
    /\ pc = "unsigned"
    /\ stmt' = ParseShellCommand(command)
    /\ sigs' = [k \in 1..Len(stmt'.Commands) |->
                   CommandSignature(stmt'.Commands[k])]
    /\ subs' = [k \in 1..Len(stmt'.Commands) |->
                   GetSubcommand(stmt'.Commands[k])]
    /\ pc' = "signed"
    /\ UNCHANGED <<file, err, exit, out, calls, cfg, toolName, command, filePath, result, words, audit, stdin>>

SigNext == Sign

SigSpec == SigInit /\ [][SigNext]_vars

\* The flag runs: tool, flags, subcommand, flags.  A flag stands alone or
\* with a value; -c and -C are registered for git, --project for dotnet.
MaxFlags == 2      \* flags before the subcommand, and after it

FlagTools == {"git", "dotnet", "/usr/bin/git"}
FlagSubs  == {"commit", "build"}
Flags     == {<<"--amend">>, <<"-C", "/path">>, <<"--project", "x">>}

\* The flags that the scan of GetSubcommand steps over whole for the tool.
SteppedOver(tool) ==
    {f \in Flags :
        \/ Len(f) = 1
        \/ f[1] \in valueFlagsByCommand(GetCommandName([Name |-> tool]))}

\* The tokens of a sequence of flags.
RECURSIVE Flatten(_)
Flatten(seqs) ==
    IF Len(seqs) = 0 THEN <<>> ELSE seqs[1] \o Flatten(Tail(seqs))

\* tool, flags of F, sub, flags of F
FlagWordsOf(tool, sub, F) ==
    {<<tool>> \o Flatten(pre) \o <<sub>> \o Flatten(post) :
        pre \in SeqsUpTo(F, MaxFlags), post \in SeqsUpTo(F, MaxFlags)}

FlagWords ==
    UNION {FlagWordsOf(tool, sub, Flags) : tool \in FlagTools, sub \in FlagSubs}

FlagInit ==
    /\ cfg = EmptyConfig
    /\ AlreadyLoaded
    /\ toolName = "Bash"
    /\ filePath = ""
    /\ words \in FlagWords
    /\ command = Join(words, " ")
    /\ stmt = NoStatement
    /\ result = NoResult
    /\ sigs = <<>>
    /\ pc = "unsigned"

FlagSpec == FlagInit /\ [][SigNext]_vars

\* The path runs: one command invoked by path, then the same command
\* invoked by its bare name.  words holds the directory, then the tokens of
\* the bare command.
MaxArgs == 2      \* arguments after the command name

Dirs      == {"", "/usr/bin/", "~/.dotnet/tools/", "./", "a/b/"}
PathTools == {"git", "dotnet-ef", "ls", "timeout", "glab"}
PathArgs  == {"status", "migrations", "add", "-C", "30"}

PathWords ==
    {<<dir, tool>> \o args :
        dir \in Dirs, tool \in PathTools, args \in SeqsUpTo(PathArgs, MaxArgs)}

PathInit ==
    /\ cfg = EmptyConfig
    /\ AlreadyLoaded
    /\ toolName = "Bash"
    /\ filePath = ""
    /\ words \in PathWords
    /\ command = words[1] \o Join(Tail(words), " ") \o " ; "
                     \o Join(Tail(words), " ")
    /\ stmt = NoStatement
    /\ result = NoResult
    /\ sigs = <<>>
    /\ pc = "unsigned"

PathSpec == PathInit /\ [][SigNext]_vars

\* The operator runs: commands joined left to right by operators.  words
\* holds the commands at the odd positions and the operators between them
\* at the even ones.
MaxCommands == 3      \* commands joined in one statement

Operators == {"&&", "||", "|", "|&", ";", "&"}
Operands  == {"a", "X=1", "echo '&' \"$(b | c)\"",
              "echo '|' " \o Backquote \o "d &" \o Backquote}

\* The operands cs with the operators os between them.
Interleave(cs, os) ==
    [k \in 1..(2 * Len(cs) - 1) |->
        IF k % 2 = 1 THEN cs[(k + 1) \div 2] ELSE os[k \div 2]]

OperatorInit ==
    /\ cfg = EmptyConfig
    /\ AlreadyLoaded
    /\ toolName = "Bash"
    /\ filePath = ""
    /\ \E n \in 1..MaxCommands :
           \E cs \in [1..n -> Operands] : \E os \in [1..(n - 1) -> Operators] :
               words = Interleave(cs, os)
    /\ command = Join(words, " ")
    /\ stmt = NoStatement
    /\ result = NoResult
    /\ sigs = <<>>
    /\ pc = "unsigned"

OperatorSpec == OperatorInit /\ [][SigNext]_vars

\* The wrapper runs: a command, wrapped or not, is parsed and signed.  A
\* wrapped command is the wrapper, tokens of the wrapper, and the command; a
\* command is the tool, tokens of the tool, and what follows them.
MaxPre == 2

WrapDirs == {"", "/usr/bin/"}

\* The tokens that may follow a wrapper before the command it runs: a flag,
\* a flag with its value, a duration, an assignment.
WrapperTokens(name) ==
    CASE name = "timeout" -> {<<"30">>, <<"-k", "9s">>, <<"--foreground">>}
      [] name = "env"     -> {<<"FOO=bar">>, <<"-u", "X">>, <<"-i">>}
      [] name = "sudo"    -> {<<"-u", "root">>, <<"-E">>}
      [] name = "nice"    -> {<<"--adjustment=5">>}
      [] name = "time"    -> {<<"-p">>}
      [] OTHER            -> {}

WrapTools == {"git", "dotnet", "ls"}

\* The tokens that may follow a tool before its subcommand.
ToolTokens(name) ==
    CASE name = "git"    -> {<<"-C", "/path">>, <<"--no-pager">>}
      [] name = "dotnet" -> {<<"--project", "x">>}
      [] OTHER           -> {<<"-la">>}

\* What follows the tokens of a tool: nothing, or a word and more arguments.
WrapRests ==
    {<<>>, <<"status">>, <<"/tmp">>, <<"build", "--project", "x">>,
     <<"/tmp", "-v", "status">>}

\* The words of a command of tool as it is found at dir.
ToolWords(dir, tool) ==
    {<<dir \o tool>> \o toks \o rest :
        toks \in {<<>>} \cup ToolTokens(tool), rest \in WrapRests}

WrapInit ==
    /\ cfg = EmptyConfig
    /\ AlreadyLoaded
    /\ toolName = "Bash"
    /\ filePath = ""
    /\ \E dir \in WrapDirs :
           \/ \E tool \in WrapTools : words \in ToolWords(dir, tool)
           \/ \E wrapper \in wrappers :
                  \E pre \in SeqsUpTo(WrapperTokens(wrapper), MaxPre) :
                      \/ words = <<dir \o wrapper>> \o Flatten(pre)
                      \/ \E tool \in WrapTools :
                             \E inner \in ToolWords(dir, tool) :
                                 words = <<dir \o wrapper>> \o Flatten(pre)
                                             \o inner
    /\ command = Join(words, " ")
    /\ stmt = NoStatement
    /\ result = NoResult
    /\ sigs = <<>>
    /\ pc = "unsigned"

WrapSpec == WrapInit /\ [][SigNext]_vars

\* The nested runs: a wrapper and its tokens, then a command that is a
\* dotnet command or again a wrapper, its tokens and a dotnet command.
NestInit ==
    /\ cfg = EmptyConfig
    /\ AlreadyLoaded
    /\ toolName = "Bash"
    /\ filePath = ""
    /\ \E outer \in wrappers :
           \E pre \in SeqsUpTo(WrapperTokens(outer), MaxPre) :
               \E inner \in ToolWords("", "dotnet") :
                   \/ words = <<outer>> \o Flatten(pre) \o inner
                   \/ \E wrapper \in wrappers :
                          \E toks \in {<<>>} \cup WrapperTokens(wrapper) :
                              words = <<outer>> \o Flatten(pre)
                                          \o <<wrapper>> \o toks \o inner
    /\ command = Join(words, " ")
    /\ stmt = NoStatement
    /\ result = NoResult
    /\ sigs = <<>>
    /\ pc = "unsigned"

NestSpec == NestInit /\ [][SigNext]_vars

\* The pattern runs: one Bash rule listing one literal pattern, placed in the
\* deny list or in the allow list, decides one single-command text.
Patterns ==
    {"timeout dotnet", "timeout", "timeout *", "dotnet run", "dotnet",
     "git", "git *", "git status", "git push", "rm", "sudo", "sudo git status",
     "env", "env npm run", "gitk"}

PatternTexts ==
    {"timeout 30 dotnet run", "timeout 120 dotnet test", "dotnet run",
     "timeout 30 npm run build", "git status", "git push", "git", "gitk",
     "gitk --all", "/usr/bin/git status", "rm -rf /", "sudo rm -rf /",
     "sudo git push", "sudo -u root git status", "sudo git commit -m 'x'",
     "env FOO=bar npm run build", "env FOO=bar git status"}

PatternConfigs ==
    {[Deny |-> <<>>,
      Allow |-> <<Rule("Bash", <<p>>, <<>>, <<>>, "", "", "listed")>>] :
        p \in Patterns}
    \cup
    {[Deny |-> <<Rule("Bash", <<p>>, <<>>, <<>>, "", "", "listed")>>,
      Allow |-> <<>>] : p \in Patterns}

PatternInit ==
    /\ cfg \in PatternConfigs
    /\ AlreadyLoaded
    /\ toolName = "Bash"
    /\ command \in PatternTexts
    /\ filePath = ""
    /\ stmt = NoStatement
    /\ result = NoResult
    /\ words = <<>>
    /\ sigs = <<>>
    /\ pc = "ready"

PatternSpec == PatternInit /\ [][Next]_vars

\* The file runs: one request for a file tool decided against one loaded
\* configuration.
FileDenyRules ==
    {PathRule("Read", <<"secret">>, <<"public">>, "", "", "deny-secret"),
     PathRule("Read", <<>>, <<>>, "^/etc", "hosts", "deny-etc"),
     PathRule("Write", <<"^/home">>, <<>>, "", "", "deny-write-home")}

FileAllowRules ==
    {PathRule("Read", <<"^/home/">>, <<"node_modules">>, "", "", "read-home"),
     PathRule("Read", <<"^/home/u">>, <<"node_modules">>, "^/home", "secret",
         "read-legacy"),
     PathRule("Read", <<>>, <<>>, "^/etc", "", "read-etc"),
     PathRule("Write", <<"^/etc", "^/home">>, <<>>, "", "", "write-any")}

FileConfigs ==
    {[Allow |-> a, Deny |-> d] :
        a \in Arrangements(FileAllowRules, MaxRules),
        d \in Arrangements(FileDenyRules, MaxRules)}

FileTools == {"Read", "Write", "Edit"}

FilePaths ==
    {"/home/u/a.go", "/home/u/node_modules/x", "/home/u/secret",
     "/home/public/secret", "/etc/hosts", "/etc/passwd", "/tmp/x"}

FileInit ==
    /\ cfg \in FileConfigs
    /\ AlreadyLoaded
    /\ toolName \in FileTools
    /\ command = ""
    /\ filePath \in FilePaths
    /\ stmt = NoStatement
    /\ result = NoResult
    /\ words = <<>>
    /\ sigs = <<>>
    /\ pc = "ready"

\* runCmd, case "Read", "Write", "Edit": result = m.MatchFilePath(...)
MatchFile ==
    /\ pc = "ready"
    /\ result' = MatchFilePath(cfg, toolName, filePath)
    /\ pc' = "done"
    /\ UNCHANGED <<file, err, exit, out, calls, cfg, toolName, command, filePath, stmt, words, sigs, subs, audit, stdin>>

FileNext == MatchFile

FileSpec == FileInit /\ [][FileNext]_vars

\* The load runs: the run command loads a configuration file, some of whose
\* patterns may not compile, and answers one request.  The file has no
\* [audit] table, so no audit entry is written.
LoadRules ==
    {AnyRule("Bash", <<"git status">>, <<"^git">>, <<"push">>, <<>>, <<>>,
         "^git", "push", "", "", "good"),
     AnyRule("Bash", <<>>, <<"^ls", "(">>, <<"[a", "a)">>, <<>>, <<>>,
         "", "", "", "", "bad-command-pattern"),
     AnyRule("Read", <<>>, <<>>, <<>>, <<"^/etc", "*">>, <<>>,
         "(ls", "", "", "", "bad-path-pattern"),
     AnyRule("Read", <<>>, <<>>, <<>>, <<"^/etc">>, <<"\\">>,
         "", "", "(/etc", "", "bad-path-exclude-pattern"),
     AnyRule("Bash", <<"git status">>, <<>>, <<>>, <<>>, <<>>,
         "^git", "[", "/etc", "(", "bad-exclude-regexes")}

LoadConfigs ==
    {[Allow |-> a, Deny |-> d] :
        a \in Arrangements(LoadRules, MaxRules),
        d \in Arrangements(LoadRules, MaxRules)}

LoadTools == {"Bash", "Read", "Glob"}

LoadInit ==
    /\ file \in LoadConfigs
    /\ cfg = NoConfig
    /\ toolName \in LoadTools
    /\ command = "git status"
    /\ filePath = "/etc/hosts"
    /\ stmt = NoStatement
    /\ result = NoResult
    /\ words = <<>>
    /\ sigs = <<>>
    /\ err = ""
    /\ exit = Running
    /\ out = <<>>
    /\ calls = <<>>
    /\ subs = <<>>
    /\ audit = AuditFile(TRUE)
    /\ stdin = "json"
    /\ pc = "start"

\* runCmd returns after WritePassthrough without asking the matcher: the
\* tool is none of Bash, Read, Write, Edit, or its command or path is empty.
ReturnsEarly(tool, cmd, path) ==
    IF tool = "Bash" THEN cmd = ""
    ELSE IF tool \in {"Read", "Write", "Edit"} THEN path = ""
    ELSE TRUE

\* The entry runCmd hands to WriteAuditEntry.
AuditEntry(tool, cmd, path, res) ==
    [ToolName |-> tool,
     ToolInput |-> [command |-> cmd, file_path |-> path],
     Decision |-> res.Decision, Reason |-> res.Reason,
     RuleMatch |-> res.MatchedRule, Details |-> res.Details]

\* Whether runCmd writes an audit entry for the result.
shouldAudit(c, res) ==
    /\ AuditConfig(c).AuditFile # ""
    /\ \/ AuditConfig(c).AuditLevel = "all"
       \/ /\ AuditConfig(c).AuditLevel = "matched"
          /\ res.Decision # DecisionPassthrough

\* WriteAuditEntry: the file with the entry appended, or the file as it was
\* when it cannot be opened; runCmd drops the error.
WriteAuditEntry(a, entry) ==
    IF a.writable
    THEN [a EXCEPT !.entries = Append(@, entry)]
    ELSE a

\* runCmd, from config.Load to hook.ReadInput: either failure ends the
\* process with exit code 1.
RunLoad ==
    /\ pc = "start"
    /\ IF Load(file).err # "" THEN
           /\ cfg' = NoConfig
           /\ err' = Load(file).err
           /\ exit' = Exited(1)
           /\ pc' = "done"
       ELSE IF stdin # "json" THEN
           /\ cfg' = Load(file).cfg
           /\ err' = "failed to parse input"
           /\ exit' = Exited(1)
           /\ pc' = "done"
       ELSE
           /\ cfg' = Load(file).cfg
           /\ err' = ""
           /\ exit' = exit
           /\ pc' = "loaded"
    /\ UNCHANGED <<file, toolName, command, filePath, stmt, result, words,
                   sigs, out, calls, subs, audit, stdin>>

\* runCmd, the switch on the tool name: a passthrough written and the
\* return, or the call of the matcher.
RunMatch ==
    /\ pc = "loaded"
    /\ IF ReturnsEarly(toolName, command, filePath) THEN
           /\ out' = Append(out, HookOutput("ask", ""))
           /\ exit' = Exited(0)
           /\ result' = result
           /\ pc' = "done"
       ELSE
           /\ result' = Evaluate(cfg, toolName, command, filePath)
           /\ out' = out
           /\ exit' = exit
           /\ pc' = "matched"
    /\ UNCHANGED <<cfg, file, err, toolName, command, filePath, stmt, words,
                   sigs, calls, subs, audit, stdin>>

\* runCmd, the audit entry.
RunAudit ==
    /\ pc = "matched"
    /\ audit' = IF shouldAudit(cfg, result)
                THEN WriteAuditEntry(audit,
                         AuditEntry(toolName, command, filePath, result))
                ELSE audit
    /\ pc' = "audited"
    /\ UNCHANGED <<cfg, file, err, exit, out, result, toolName, command,
                   filePath, stmt, words, sigs, calls, subs, stdin>>

\* runCmd, the decision written.
RunOutput ==
    /\ pc = "audited"
    /\ out' = Append(out, WriteDecision(result))
    /\ exit' = Exited(0)
    /\ pc' = "done"
    /\ UNCHANGED <<cfg, file, err, result, toolName, command, filePath, stmt,
                   words, sigs, calls, subs, audit, stdin>>

\* runCmd, step by step.
RunCmd == RunLoad \/ RunMatch \/ RunAudit \/ RunOutput

LoadNext == RunCmd

LoadSpec == LoadInit /\ [][LoadNext]_vars

\* The request runs: the run command loads a configuration file with rules
\* for Bash and for the file tools, with or without an [audit] table, and
\* answers what it finds on its standard input; the audit file can be opened
\* or not.
RunRules ==
    [Allow |-> <<Rule("Bash", <<"git status">>, <<>>, <<>>, "", "", "safe-git"),
                 PathRule("Read", <<"^/home">>, <<>>, "", "", "home")>>,
     Deny  |-> <<Rule("Bash", <<"git push">>, <<>>, <<>>, "", "", "no-push"),
                 PathRule("Read", <<"^/etc">>, <<>>, "", "", "no-etc")>>]

BrokenRules ==
    [Allow |-> <<Rule("Bash", <<>>, <<"(">>, <<>>, "", "", "broken")>>,
     Deny  |-> <<>>]

AuditTables ==
    {[AuditFile |-> f, AuditLevel |-> l] :
        f \in {"", "audit.jsonl"}, l \in {"", "off", "matched", "all"}}

RunConfigs ==
    {RunRules, BrokenRules}
    \cup {[Allow |-> RunRules.Allow, Deny |-> RunRules.Deny, Audit |-> a] :
             a \in AuditTables}

RunTools    == {"Bash", "Read", "Write", "Edit", "Glob"}
RunCommands == {"", "git status", "git push", "ls"}
RunPaths    == {"", "/etc/hosts", "/home/x"}

RunInit ==
    /\ file \in RunConfigs
    /\ cfg = NoConfig
    /\ toolName \in RunTools
    /\ command \in RunCommands
    /\ filePath \in RunPaths
    /\ stdin \in {"json", "garbage"}
    /\ audit \in {AuditFile(w) : w \in BOOLEAN}
    /\ stmt = NoStatement
    /\ result = NoResult
    /\ words = <<>>
    /\ sigs = <<>>
    /\ err = ""
    /\ exit = Running
    /\ out = <<>>
    /\ calls = <<>>
    /\ subs = <<>>
    /\ pc = "start"

RunNext == RunCmd

RunSpec == RunInit /\ [][RunNext]_vars

\* The concurrent runs: MaxCalls callers share one Matcher, each with its own
\* request; a call is a sequence of steps that other calls' steps may come
\* between, and a caller may repeat its call once.
MaxCalls == 2

ConcAllow ==
    <<Rule("Bash", <<"git add", "git commit", "git status">>, <<>>,
          <<";", "&">>, "", "", "git-safe"),
      PathRule("Read", <<"^/home/">>, <<"node_modules">>, "", "", "read-home")>>

ConcDeny ==
    <<Rule("Bash", <<"git push">>, <<>>, <<>>, "", "", "deny-push"),
      PathRule("Read", <<"secret">>, <<>>, "", "", "deny-secret")>>

ConcConfigs ==
    {[Allow |-> a, Deny |-> d] : a \in {<<>>, ConcAllow}, d \in {<<>>, ConcDeny}}

\* A call as it is made: the request, and the locals of the call.
Call(tool, cmd, path) ==
    [tool |-> tool, command |-> cmd, filePath |-> path, stmt |-> NoStatement,
     result |-> NoResult, prior |-> NoResult, repeated |-> FALSE,
     pc |-> "called"]

Requests ==
    {Call("Bash", "git add -A && git commit -m x", ""),
     Call("Bash", "git add -A && git push", ""),
     Call("Read", "", "/home/u/a.go"),
     Call("Read", "", "/home/u/secret")}

ConcInit ==
    /\ cfg \in ConcConfigs
    /\ file = cfg
    /\ calls \in [1..MaxCalls -> Requests]
    /\ toolName = ""
    /\ command = ""
    /\ filePath = ""
    /\ stmt = NoStatement
    /\ result = NoResult
    /\ words = <<>>
    /\ sigs = <<>>
    /\ err = ""
    /\ exit = Running
    /\ out = <<>>
    /\ subs = <<>>
    /\ audit = AuditFile(TRUE)
    /\ stdin = "json"
    /\ pc = "serving"

\* Where the locals of call i are kept: one frame for all the calls.
SharedFrame(i) == 1

\* Where the locals of call i are kept: stmt is a variable of the call, and
\* ParseShellCommand makes a parser and a ShellStatement of its own.
Frame(i) == i

\* MatchBashCommand, line 42: the statement is parsed.
Parse(i) ==
    /\ calls[i].pc = "called"
    /\ calls[i].tool = "Bash"
    /\ calls' = [calls EXCEPT
                    ![Frame(i)].stmt = ParseShellCommand(calls[i].command),
                    ![i].pc = "parsed"]
    /\ UNCHANGED <<cfg, toolName, command, filePath, stmt, result, words,
                   sigs, pc, file, err, exit, out, subs, audit, stdin>>

\* MatchBashCommand, from line 43: the rules are read and the call returns.
Match(i) ==
    /\ calls[i].pc = "parsed"
    /\ calls' = [calls EXCEPT
                    ![i].result = MatchParsed(cfg, calls[i].command,
                                      calls[Frame(i)].stmt),
                    ![i].pc = "returned"]
    /\ UNCHANGED <<cfg, toolName, command, filePath, stmt, result, words,
                   sigs, pc, file, err, exit, out, subs, audit, stdin>>

\* MatchFilePath: the rules are read and the call returns.
MatchPath(i) ==
    /\ calls[i].pc = "called"
    /\ calls[i].tool # "Bash"
    /\ calls' = [calls EXCEPT
                    ![i].result = MatchFilePath(cfg, calls[i].tool,
                                      calls[i].filePath),
                    ![i].pc = "returned"]
    /\ UNCHANGED <<cfg, toolName, command, filePath, stmt, result, words,
                   sigs, pc, file, err, exit, out, subs, audit, stdin>>

\* The caller makes the same call again.
Repeat(i) ==
    /\ calls[i].pc = "returned"
    /\ ~calls[i].repeated
    /\ calls' = [calls EXCEPT
                    ![i].prior = calls[i].result,
                    ![i].result = NoResult,
                    ![i].repeated = TRUE,
                    ![i].pc = "called"]
    /\ UNCHANGED <<cfg, toolName, command, filePath, stmt, result, words,
                   sigs, pc, file, err, exit, out, subs, audit, stdin>>

ConcNext ==
    \E i \in 1..MaxCalls : Parse(i) \/ Match(i) \/ MatchPath(i) \/ Repeat(i)

ConcSpec == ConcInit /\ [][ConcNext]_vars

(***************************************************************************)
(* Properties of MatchBashCommand, stated over a decided request.          *)
(***************************************************************************)
Decided == pc = "done"

Parsed == Decided /\ ~stmt.err

BashDeny  == {i \in 1..Len(cfg.Deny) : cfg.Deny[i].Tool = "Bash"}

BashAllow == {i \in 1..Len(cfg.Allow) : cfg.Allow[i].Tool = "Bash"}

\* The signature of cmd matches an entry of the rule's commands list.
ListMatch(rule, cmd) ==
    \E k \in 1..Len(rule.Commands) :
        matchCommandSignature(rule.Commands[k], CommandSignature(cmd), cmd)

\* A command_patterns regex of the rule matches text.
PatternMatch(rule, text) ==
    \E k \in 1..Len(rule.CommandPatterns) :
        MatchString(rule.CommandPatterns[k], text)

\* The legacy command_regex of the rule matches text.
LegacyMatch(rule, text) ==
    rule.CommandRegex # "" /\ MatchString(rule.CommandRegex, text)

\* The legacy command_exclude_regex of the rule matches text.
LegacyVeto(rule, text) ==
    rule.CommandExcludeRegex # "" /\ MatchString(rule.CommandExcludeRegex, text)

\* An exclude pattern of the rule matches text.
ExcludeMatch(rule, text) ==
    \E k \in 1..Len(rule.ExcludePatterns) :
        MatchString(rule.ExcludePatterns[k], text)

\* The deny rule matches the raw statement text, whatever the commands.
TextDenied(rule) ==
    \/ PatternMatch(rule, command)
    \/ LegacyMatch(rule, command) /\ ~LegacyVeto(rule, command)
    \/ stmt.HasSubshell /\ ExcludeMatch(rule, command)

\* The deny rule matches the decided statement by one of its fields.
DenyMatches(rule) ==
    \/ TextDenied(rule)
    \/ \E c \in 1..Len(stmt.Commands) : ListMatch(rule, stmt.Commands[c])

\* The allow rule matches the command by one of its fields.
AllowMatches(rule, cmd) ==
    \/ ListMatch(rule, cmd)
    \/ PatternMatch(rule, cmd.Raw)
    \/ LegacyMatch(rule, cmd.Raw) /\ ~LegacyVeto(rule, cmd.Raw)

\* C1: when the signature of a command of the statement matches an entry of
\* the commands list of a Bash deny rule, the decision is Deny, whatever the
\* other fields of that rule.
C1_DenyListAlwaysDenies ==
    (/\ Parsed
     /\ \E i \in BashDeny : \E c \in 1..Len(stmt.Commands) :
            ListMatch(cfg.Deny[i], stmt.Commands[c]))
        => result.Decision = DecisionDeny

\* C2: a statement of more than one command that no deny rule matches is
\* allowed when every command is allowed by checkSingleCommand, and passed
\* through otherwise.
C2_CompoundAllOrNothing ==
    (/\ Parsed
     /\ Len(stmt.Commands) > 1
     /\ \A i \in BashDeny : ~DenyMatches(cfg.Deny[i]))
        => result.Decision =
               IF \A k \in 1..Len(stmt.Commands) :
                      checkSingleCommand(cfg, stmt.Commands[k]).Decision
                          = DecisionAllow
               THEN DecisionAllow
               ELSE DecisionPassthrough

\* A compound statement with an allowed and a not allowed command, passed
\* through.
C2_MixedCompoundPassedThrough ==
    /\ Parsed
    /\ Len(stmt.Commands) > 1
    /\ \A i \in BashDeny : ~DenyMatches(cfg.Deny[i])
    /\ \E k \in 1..Len(stmt.Commands) :
           checkSingleCommand(cfg, stmt.Commands[k]).Decision = DecisionAllow
    /\ \E k \in 1..Len(stmt.Commands) :
           checkSingleCommand(cfg, stmt.Commands[k]).Decision # DecisionAllow
    /\ result.Decision = DecisionPassthrough

\* C3: the decision is Allow only if the statement parsed, has a command,
\* and every command is matched by some Bash allow rule; without Bash allow
\* rules it is never Allow.
C3_AllowOnlyWhenAllMatched ==
    (Decided /\ result.Decision = DecisionAllow)
        => /\ ~stmt.err
           /\ Len(stmt.Commands) >= 1
           /\ BashAllow # {}
           /\ \A k \in 1..Len(stmt.Commands) :
                  \E i \in BashAllow :
                      AllowMatches(cfg.Allow[i], stmt.Commands[k])

\* A compound statement allowed by a configuration that also holds an allow
\* rule of another tool.
C3_CompoundAllowed ==
    /\ Decided
    /\ result.Decision = DecisionAllow
    /\ Len(stmt.Commands) > 1
    /\ \E i \in 1..Len(cfg.Allow) : cfg.Allow[i].Tool # "Bash"

\* C4: the decision is Deny only when some Bash deny rule matches the
\* statement; without Bash deny rules it is never Deny.
C4_DenyOnlyFromDenyRule ==
    (Decided /\ result.Decision = DecisionDeny)
        => /\ BashDeny # {}
           /\ \E i \in BashDeny : DenyMatches(cfg.Deny[i])

\* A statement denied by a configuration that also holds a deny rule of
\* another tool.
C4_Denied ==
    /\ Decided
    /\ result.Decision = DecisionDeny
    /\ \E i \in 1..Len(cfg.Deny) : cfg.Deny[i].Tool # "Bash"

\* C5: when the parser fails on the command text the decision is
\* Passthrough, for every rule set.
C5_ParseFailurePassesThrough ==
    (Decided /\ stmt.err) => result.Decision = DecisionPassthrough

\* A parse failure on a text that a deny regex and an allow rule's regex
\* both match.
C5_UnparsedTextMatchingRegexes ==
    /\ Decided
    /\ stmt.err
    /\ \E i \in BashDeny : PatternMatch(cfg.Deny[i], command)
    /\ \E i \in BashAllow : LegacyMatch(cfg.Allow[i], command)
    /\ result.Decision = DecisionPassthrough

\* C6 as stated: a statement that parses to zero commands is passed through,
\* for every rule set.
C6_ZeroCommandsPassThrough ==
    (Parsed /\ Len(stmt.Commands) = 0)
        => result.Decision = DecisionPassthrough

\* C6: a statement that parses to zero commands is denied when a Bash deny
\* rule matches its raw text, and passed through otherwise; it is never
\* allowed.
C6_ZeroCommandsDeniedOrPassedThrough ==
    (Parsed /\ Len(stmt.Commands) = 0)
        => result.Decision =
               IF \E i \in BashDeny : TextDenied(cfg.Deny[i])
               THEN DecisionDeny
               ELSE DecisionPassthrough

\* A comment, which has no commands, denied for its text by a configuration
\* that holds a Bash allow rule.
C6_CommentDenied ==
    /\ Parsed
    /\ Len(stmt.Commands) = 0
    /\ HasPrefix(command, "#")
    /\ BashAllow # {}
    /\ result.Decision = DecisionDeny

\* C7: an allow rule with an exclude pattern matching the raw text of the
\* command never yields Allow for it, so that the rule an allowed single
\* command is matched to is one that does not exclude it.
C7_ExcludedRuleNeverAllows ==
    (/\ Parsed
     /\ Len(stmt.Commands) = 1
     /\ result.Decision = DecisionAllow)
        => \E i \in BashAllow :
               /\ cfg.Allow[i].Description = result.MatchedRule
               /\ ~ExcludeMatch(cfg.Allow[i], stmt.Commands[1].Raw)

\* The statements at the top level of the command text.
TopLevel == ParseFile(command).Stmts

\* The command text joins statements with the separator sep.
JoinedBy(sep) ==
    \E k \in 1..(Len(TopLevel) - 1) :
        TopLevel[k].Background = (sep = "&")

\* C8: when every Bash allow rule carries an exclude pattern for a
\* separator, ; or &, a statement that joins commands with that separator
\* is not allowed.
C8_SeparatorVeto ==
    (/\ Parsed
     /\ Len(stmt.Commands) > 1
     /\ \E sep \in {";", "&"} :
            /\ JoinedBy(sep)
            /\ \A i \in BashAllow :
                   \E k \in 1..Len(cfg.Allow[i].ExcludePatterns) :
                       cfg.Allow[i].ExcludePatterns[k] = sep)
        => result.Decision # DecisionAllow

\* The Bash allow rules that match the command and do not exclude it.
Satisfying(cmd) ==
    {i \in BashAllow :
        /\ AllowMatches(cfg.Allow[i], cmd)
        /\ ~ExcludeMatch(cfg.Allow[i], cmd.Raw)}

\* C9: a Deny carries the description of the earliest Bash deny rule that
\* matches the statement, and the Allow of a single command the description
\* of the earliest Bash allow rule that matches and is not excluded.
C9_FirstSatisfyingRuleWins ==
    /\ (Parsed /\ result.Decision = DecisionDeny)
           => LET S == {i \in BashDeny : DenyMatches(cfg.Deny[i])}
              IN  /\ S # {}
                  /\ result.MatchedRule = cfg.Deny[Least(S)].Description
    /\ (Parsed /\ Len(stmt.Commands) = 1 /\ result.Decision = DecisionAllow)
           => LET S == Satisfying(stmt.Commands[1])
              IN  /\ S # {}
                  /\ result.MatchedRule = cfg.Allow[Least(S)].Description

(***************************************************************************)
(* Properties of CommandSignature, stated over a signed command.           *)
(***************************************************************************)
\* The base name of a command word that names a tool with subcommands.
BaseOf(word) ==
    CHOOSE base \in subcommandCommands :
        word = base \/ HasSuffix(word, "/" \o base)

\* C10: the signature of timeout N inner sub args is timeout, the base
\* name of inner and sub, whatever the digits of N and whatever the args.
C10_TimeoutSignature ==
    (pc = "signed")
        => sigs = <<"timeout " \o BaseOf(words[3]) \o " " \o words[4]>>

\* A signed command with a duration of two digits and two more arguments,
\* the first a flag that takes a value and the second a number.
C10_LongTimeoutSigned ==
    /\ pc = "signed"
    /\ Len(words[2]) = 2
    /\ Len(words) = 6
    /\ words[5] = "--project"
    /\ words[6] = "30"
    /\ sigs = <<"timeout dotnet run">>

\* The words are tool, flags, sub, flags with every flag one that the scan
\* steps over whole: a flag alone, or a value flag registered for the tool.
FlagsAround(tool, sub) ==
    /\ words[1] = tool
    /\ \E k \in 2..Len(words) : words[k] = sub
    /\ \A f \in Flags \ SteppedOver(tool) :
           \A k \in 2..Len(words) : words[k] # f[1]

\* C11: the signature of a command of a tool with subcommands is the base
\* name and the subcommand, whatever flags (with their values) stand before
\* or after the subcommand and in whatever order.
C11_FlagsLeaveSignature ==
    \A tool \in FlagTools : \A sub \in FlagSubs :
        (pc = "signed" /\ FlagsAround(tool, sub))
            => sigs = <<GetCommandName([Name |-> tool]) \o " " \o sub>>

\* A flag and a value flag before the subcommand and a flag after it.
C11_FlagsOnBothSides ==
    /\ pc = "signed"
    /\ words = <<"git", "--amend", "-C", "/path", "commit", "--amend">>
    /\ sigs = <<"git commit">>

\* C12: GetCommandName is the last segment of the command name, the name
\* itself when it holds no /, and a command invoked by path has the
\* signature of the same command invoked by its bare name.
C12_PathBasename ==
    (pc = "signed")
        => /\ Len(stmt.Commands) = 2
           /\ stmt.Commands[1].Name = words[1] \o words[2]
           /\ GetCommandName(stmt.Commands[1]) = words[2]
           /\ GetCommandName(stmt.Commands[2]) = words[2]
           /\ sigs[1] = sigs[2]

\* A tool with subcommands invoked by a path of several segments.
C12_ToolByPathSigned ==
    /\ pc = "signed"
    /\ words = <<"~/.dotnet/tools/", "dotnet-ef", "migrations", "add">>
    /\ sigs = <<"dotnet-ef migrations", "dotnet-ef migrations">>

(***************************************************************************)
(* Properties of ParseShellCommand, stated over the operator runs.         *)
(***************************************************************************)
\* The operands and the operators of the words.
OperandsOf(w)  == {w[k] : k \in {k \in 1..Len(w) : k % 2 = 1}}
OperatorsOf(w) == {w[k] : k \in {k \in 1..Len(w) : k % 2 = 0}}

\* What each operand holds within itself; nothing inside single quotes
\* counts.
PipeWithin       == {"echo '&' \"$(b | c)\""}
BackgroundWithin == {"echo '|' " \o Backquote \o "d &" \o Backquote}
SubstWithin      == PipeWithin \cup BackgroundWithin

\* C13: after a successful parse HasPipe tells whether a | or |& occurs
\* anywhere, HasBackground whether some statement ends in &, HasSubshell
\* whether a command substitution occurs anywhere, nested or quoted.
C13_HazardFlags ==
    (pc = "signed")
        => /\ ~stmt.err
           /\ stmt.HasPipe =
                  (\/ OperatorsOf(words) \cap {"|", "|&"} # {}
                   \/ OperandsOf(words) \cap PipeWithin # {})
           /\ stmt.HasBackground =
                  (\/ "&" \in OperatorsOf(words)
                   \/ OperandsOf(words) \cap BackgroundWithin # {})
           /\ stmt.HasSubshell = (OperandsOf(words) \cap SubstWithin # {})

\* A pipe inside a quoted command substitution, with no pipe between the
\* operands and an & only inside single quotes.
C13_NestedPipeFlagged ==
    /\ pc = "signed"
    /\ words = <<"a", "&&", "echo '&' \"$(b | c)\"">>
    /\ stmt.HasPipe
    /\ stmt.HasSubshell
    /\ ~stmt.HasBackground

\* The words are plain commands joined by operators that join two commands.
PlainCommands ==
    /\ OperandsOf(words) = {"a"}
    /\ OperatorsOf(words) \subseteq {"&&", "||", "|", "|&", ";"}

\* C18: of plain commands joined left to right by operators, the i-th
\* parsed command carries the operator that stands between it and the next.
C18_OperatorAttached ==
    (pc = "signed" /\ PlainCommands)
        => /\ Len(stmt.Commands) = (Len(words) + 1) \div 2
           /\ \A i \in 1..(Len(stmt.Commands) - 1) :
                  stmt.Commands[i].Operator = words[2 * i]

\* C19: after a successful parse with at least one command, the last
\* command carries no operator.
C19_LastOperatorEmpty ==
    (pc = "signed" /\ ~stmt.err /\ Len(stmt.Commands) > 0)
        => stmt.Commands[Len(stmt.Commands)].Operator = ""

(***************************************************************************)
(* Properties of CommandSignature, stated over the wrapper runs.           *)
(***************************************************************************)
\* The name a word of the wrapper runs stands for, whatever its directory.
NameOf(word) ==
    CHOOSE name \in wrappers \cup WrapTools :
        word = name \/ HasSuffix(word, "/" \o name)

\* The position in the words, from position k on, of the first word that is
\* not one of the given tokens; 0 when there is none.
FirstBeyond(tokens, k) ==
    LET beyond == {j \in k..Len(words) :
                      \A t \in tokens : \A n \in 1..Len(t) : words[j] # t[n]}
    IN  IF beyond = {} THEN 0 ELSE Least(beyond)

\* base, and the subcommand when the tool at position k is registered and
\* a subcommand starting with neither - nor / is found.
BaseAndSub(k) ==
    LET base == NameOf(words[k])
        at   == FirstBeyond(ToolTokens(base), k + 1)
    IN  IF /\ base \in subcommandCommands
           /\ at # 0
           /\ ~HasPrefix(words[at], "-")
           /\ ~HasPrefix(words[at], "/")
        THEN base \o " " \o words[at]
        ELSE base

\* C20: the signature is wrapper, inner base and inner subcommand when the
\* base name is a wrapper and an inner command is found; the bare wrapper
\* when none is found; base and subcommand for a registered tool whose
\* subcommand starts with neither - nor /; else the base alone, and so
\* always for a tool that is not registered.
C20_SignatureShape ==
    (pc = "signed")
        => sigs =
               <<IF NameOf(words[1]) \in wrappers THEN
                     IF FirstBeyond(WrapperTokens(NameOf(words[1])), 2) = 0
                     THEN NameOf(words[1])
                     ELSE NameOf(words[1]) \o " " \o
                          BaseAndSub(FirstBeyond(
                              WrapperTokens(NameOf(words[1])), 2))
                 ELSE BaseAndSub(1)>>

\* A wrapper found by its path, a flag with its value, and a registered
\* tool found by its path, with a flag with its value before its subcommand.
C20_WrappedByPathSigned ==
    /\ pc = "signed"
    /\ words = <<"/usr/bin/sudo", "-u", "root", "/usr/bin/git", "-C", "/path",
                 "status">>
    /\ sigs = <<"sudo git status">>

\* C21: GetSubcommand is empty for a command whose base name is not
\* registered as subcommand-bearing, and else the first argument after the
\* name that is neither a flag nor the value of a registered value flag,
\* empty when there is none.
C21_SubcommandOfRegisteredOnly ==
    (pc = "signed")
        => subs =
               <<IF NameOf(words[1]) \notin subcommandCommands THEN ""
                 ELSE IF FirstBeyond(ToolTokens(NameOf(words[1])), 2) = 0
                 THEN ""
                 ELSE words[FirstBeyond(ToolTokens(NameOf(words[1])), 2)]>>

\* The command that the words from position k on make.
CommandFrom(k) ==
    ParsedCommand(words[k], SubSeq(words, k, Len(words)),
        Join(SubSeq(words, k, Len(words)), " "), "")

\* C22: the signature of a wrapper command whose inner command is found is
\* the wrapper name and the signature of the inner command, computed in the
\* same way, also when the inner command is a wrapper itself.
C22_WrapperRecursion ==
    (pc = "signed")
        => sigs =
               <<NameOf(words[1]) \o " " \o
                 CommandSignature(CommandFrom(
                     FirstBeyond(WrapperTokens(NameOf(words[1])), 2)))>>

(***************************************************************************)
(* Properties of MatchFilePath, stated over a decided file request.        *)
(***************************************************************************)
\* The rules of the request's tool.
\* The argument words of command k of the decided statement, joined by
\* single spaces.
JoinedArgs(k) == Join(stmt.Commands[k].Args, " ")

\* The allow rule takes the text as that of a command it allows.
AllowsText(rule, cmd, text) ==
    \/ (ListMatch(rule, cmd) \/ PatternMatch(rule, text))
           /\ ~ExcludeMatch(rule, text)
    \/ LegacyMatch(rule, text) /\ ~LegacyVeto(rule, text)

WithoutDenyExcludes(c) ==
    [c EXCEPT !.Deny = [i \in 1..Len(c.Deny) |->
                           [c.Deny[i] EXCEPT !.ExcludePatterns = <<>>]]]

\* The Bash deny rules with an exclude pattern matching the statement text.
DenyExcluding == {i \in BashDeny : ExcludeMatch(cfg.Deny[i], command)}

\* C27: when the statement holds a command substitution and an exclude
\* pattern of a Bash deny rule matches its text, the decision is Deny, taken
\* before any other deny matching; when it holds none, the decision is the
\* one taken with the exclude patterns of all deny rules removed.
C27_DenyExcludesOnlyWithSubshell ==
    /\ (Parsed /\ stmt.HasSubshell /\ DenyExcluding # {})
           => /\ result.Decision = DecisionDeny
              /\ result.Reason = "Command contains denied pattern"
              /\ result.MatchedRule = cfg.Deny[Least(DenyExcluding)].Description
    /\ (Decided /\ ~stmt.HasSubshell)
           => /\ result.Reason # "Command contains denied pattern"
              /\ result = MatchBashCommand(WithoutDenyExcludes(cfg), command)

\* A command substitution denied for an exclude pattern by a rule that
\* matches the statement in no other way, behind a rule that does.
C27_SubshellDeniedByExclude ==
    /\ Parsed
    /\ stmt.HasSubshell
    /\ Len(cfg.Deny) = 2
    /\ 1 \notin DenyExcluding
    /\ ListMatch(cfg.Deny[1], stmt.Commands[2])
    /\ DenyExcluding = {2}
    /\ ~PatternMatch(cfg.Deny[2], command)
    /\ result.Decision = DecisionDeny
    /\ result.MatchedRule = cfg.Deny[2].Description

\* The raw texts of the commands of the decided statement, in their order.
RawTexts == [k \in 1..Len(stmt.Commands) |-> stmt.Commands[k].Raw]

\* The statements that run one command inside the substitution of an echo.
EchoOfSubstitution ==
    {"echo $(git push)", "echo $(git status)", "echo $(rm origin/push)"}

\* C26: the commands inside a command substitution, a subshell group or a
\* quoted word are collected in source order after the command that holds
\* them; echo $(X ...) is allowed only if both echo and X are allowed, and
\* denied if the signature of X matches a deny rule.
C26_NestedCommandsCollected ==
    /\ (Parsed /\ command = "echo $(git push)")
           => RawTexts = <<"echo $(...)", "git push">>
    /\ (Parsed /\ HasPrefix(command, "echo " \o Backquote))
           => RawTexts = <<"echo $(...)", "git status", "git add -A",
                           "git commit -m $(...)", "git push">>
    /\ (Parsed /\ command \in EchoOfSubstitution)
           => /\ Len(stmt.Commands) = 2
              /\ CommandSignature(stmt.Commands[1]) = "echo"
              /\ result.Decision = DecisionAllow
                     => \A k \in 1..2 : \E i \in BashAllow :
                            AllowsText(cfg.Allow[i], stmt.Commands[k],
                                stmt.Commands[k].Raw)
              /\ (\E i \in BashDeny : ListMatch(cfg.Deny[i], stmt.Commands[2]))
                     => result.Decision = DecisionDeny

\* The one literal pattern of a pattern run, the list that holds it, and the
\* signature and base name of the one command it is matched against.
ThePattern ==
    IF Len(cfg.Deny) > 0 THEN cfg.Deny[1].Commands[1]
    ELSE cfg.Allow[1].Commands[1]

PatternHit ==
    IF Len(cfg.Deny) > 0 THEN result.Decision = DecisionDeny
    ELSE result.Decision = DecisionAllow

TheSignature == CommandSignature(stmt.Commands[1])

TheBase == GetCommandName(stmt.Commands[1])

C28_WildcardOnWordBoundary ==
    (pc = "done" /\ HasSuffix(ThePattern, " *") /\ PatternHit) =>
        LET P == TrimSuffix(ThePattern, " *")
        IN  \/ TheBase = P
            \/ TheSignature = P
            \/ HasPrefix(TheSignature, P \o " ")

\* C29: a pattern without a space matches a command iff it equals the
\* command's signature or its own base name, and a multi-word pattern is
\* compared with the signature that begins with the wrapper name; a deny rule
\* listing "rm" or "git push" matches neither "sudo rm -rf /" nor
\* "sudo git push", and an allow rule listing the bare name of a wrapper allows
\* every command run through that wrapper.
C29_OutermostCommandOnly ==
    (pc = "done") =>
        /\ ~Contains(ThePattern, " ") =>
              (PatternHit <=> (ThePattern = TheSignature \/ ThePattern = TheBase))
        /\ (Contains(ThePattern, " ") /\ ~HasSuffix(ThePattern, " *")
               /\ TheBase \in wrappers /\ PatternHit)
              => HasPrefix(ThePattern, TheBase \o " ")
        /\ (ThePattern \in {"rm", "git push"}
               /\ command \in {"sudo rm -rf /", "sudo git push"}) => ~PatternHit
        /\ (Len(cfg.Allow) = 1 /\ ThePattern = TheBase /\ TheBase \in wrappers)
              => result.Decision = DecisionAllow

C29_SudoRmNotDenied ==
    /\ pc = "done"
    /\ Len(cfg.Deny) = 1
    /\ ThePattern = "rm"
    /\ command = "sudo rm -rf /"
    /\ stmt.Commands[1].Args = <<"sudo", "rm", "-rf", "/">>
    /\ result.Decision = DecisionPassthrough

ToolDeny  == {i \in 1..Len(cfg.Deny) : cfg.Deny[i].Tool = toolName}

ToolAllow == {i \in 1..Len(cfg.Allow) : cfg.Allow[i].Tool = toolName}

\* A path_patterns regex of the rule matches the path.
PathPatternMatch(rule) ==
    \E k \in 1..Len(rule.PathPatterns) :
        MatchString(rule.PathPatterns[k], filePath)

\* A path_exclude_patterns regex of the rule matches the path.
PathExcludeMatch(rule) ==
    \E k \in 1..Len(rule.PathExcludePatterns) :
        MatchString(rule.PathExcludePatterns[k], filePath)

\* The legacy file_path_regex of the rule matches the path and its
\* file_path_exclude_regex does not.
LegacyPathMatch(rule) ==
    /\ rule.FilePathRegex # ""
    /\ MatchString(rule.FilePathRegex, filePath)
    /\ ~(/\ rule.FilePathExcludeRegex # ""
         /\ MatchString(rule.FilePathExcludeRegex, filePath))

\* An allow rule of the request's tool lets the path through.
SomeAllowRuleMatches ==
    \E i \in ToolAllow :
        \/ /\ PathPatternMatch(cfg.Allow[i])
           /\ ~PathExcludeMatch(cfg.Allow[i])
        \/ LegacyPathMatch(cfg.Allow[i])

\* C14 as stated: a file request is denied when a deny rule of its tool has a
\* path regex (one of path_patterns, or file_path_regex) matching the path,
\* whatever the allow rules; otherwise it is allowed when an allow rule of
\* its tool matches, and passed through when none does.
C14_AnyPathRegexDenies ==
    Decided
        => result.Decision =
               IF \E i \in ToolDeny :
                      \/ PathPatternMatch(cfg.Deny[i])
                      \/ /\ cfg.Deny[i].FilePathRegex # ""
                         /\ MatchString(cfg.Deny[i].FilePathRegex, filePath)
               THEN DecisionDeny
               ELSE IF SomeAllowRuleMatches
               THEN DecisionAllow
               ELSE DecisionPassthrough

\* C14, amended: a file request is denied when a deny rule of its tool has a
\* path_patterns regex matching the path, or a file_path_regex matching it
\* that its file_path_exclude_regex does not veto, whatever the allow rules;
\* otherwise it is allowed when an allow rule of its tool matches, and passed
\* through when none does; rules of other tools have no part in it.
C14_PathDenyBeforeAllow ==
    Decided
        => result.Decision =
               IF \E i \in ToolDeny :
                      \/ PathPatternMatch(cfg.Deny[i])
                      \/ LegacyPathMatch(cfg.Deny[i])
               THEN DecisionDeny
               ELSE IF SomeAllowRuleMatches
               THEN DecisionAllow
               ELSE DecisionPassthrough

\* A path denied though an allow rule of the tool matches it too, under a
\* configuration that also holds an allow rule of another tool matching it.
C14_DeniedThoughAllowed ==
    /\ Decided
    /\ result.Decision = DecisionDeny
    /\ \E i \in ToolAllow :
           PathPatternMatch(cfg.Allow[i]) /\ ~PathExcludeMatch(cfg.Allow[i])
    /\ \E i \in 1..Len(cfg.Allow) :
           cfg.Allow[i].Tool # toolName /\ PathPatternMatch(cfg.Allow[i])

\* C15: a file request is allowed only through an allow rule of its tool
\* that matches the path and none of whose path_exclude_patterns matches
\* it, whichever field of the rule matched.
C15_PathExcludedRuleNeverAllows ==
    (Decided /\ result.Decision = DecisionAllow)
        => \E i \in ToolAllow :
               /\ cfg.Allow[i].Description = result.MatchedRule
               /\ ~PathExcludeMatch(cfg.Allow[i])

(***************************************************************************)
(* Properties of Load and runCmd, stated over a finished run.              *)
(***************************************************************************)
\* The places of the file where a pattern does not compile: the list, the
\* rule (counted from 1), the field and the pattern.
MalformedIn(l, rules) ==
    UNION {UNION {{[list |-> l, index |-> i,
                    name |-> PatternFields(rules[i])[f].name,
                    pattern |-> PatternFields(rules[i])[f].patterns[k]] :
                      k \in {k \in 1..Len(PatternFields(rules[i])[f].patterns) :
                                CompileError(PatternFields(rules[i])[f].patterns[k])
                                    # ""}} :
                  f \in 1..Len(PatternFields(rules[i]))} :
           i \in 1..Len(rules)}

Malformed == MalformedIn("allow", file.Allow) \cup MalformedIn("deny", file.Deny)

\* C16: when a pattern of any field of any allow or deny rule does not
\* compile, Load returns no Config and an error naming the list, the index
\* of the rule and the field of such a pattern, and the run exits with a
\* code other than 0, no request evaluated and no decision written; when
\* all compile, the whole file is the Config.
C16_LoadAllOrNothing ==
    pc = "done"
        => IF Malformed # {} THEN
               /\ cfg = NoConfig
               /\ exit.exited /\ exit.code # 0
               /\ result = NoResult
               /\ out = <<>>
               /\ \E m \in Malformed :
                      Contains(err,
                          "error compiling " \o m.list \o " rule "
                              \o Itoa(m.index - 1) \o ": invalid " \o m.name
                              \o " " \o Quote(m.pattern))
           ELSE
               /\ cfg = file
               /\ err = ""
               /\ exit = Exited(0)
               /\ Len(out) = 1

\* A run that stopped at a legacy field of the second deny rule, the allow
\* rules having compiled.
C16_SecondDenyRuleNamed ==
    /\ pc = "done"
    /\ exit = Exited(1)
    /\ Len(file.Allow) > 0
    /\ Contains(err, "deny rule 1: invalid command_exclude_regex \"[\"")

(***************************************************************************)
(* Properties of the run command, stated over the request runs.            *)
(***************************************************************************)
\* The run got past config.Load and hook.ReadInput.
PastLoading == Load(file).err = "" /\ stdin = "json"

\* The request names no tool the matcher decides, or nothing to decide.
NothingToMatch ==
    \/ toolName \notin {"Bash", "Read", "Write", "Edit"}
    \/ toolName = "Bash" /\ command = ""
    \/ toolName # "Bash" /\ filePath = ""

\* What the matcher returns for the request.
Matched ==
    IF toolName = "Bash" THEN MatchBashCommand(cfg, command)
    ELSE MatchFilePath(cfg, toolName, filePath)

\* C25: the run command writes allow only when the matcher returned Allow,
\* deny only when it returned Deny and ask for Passthrough; a request for
\* another tool, or with an empty command or an empty file path, gets ask
\* with no rule consulted; a run that gets past the loading of config and
\* input writes exactly one output record.
C25_DecisionWrittenFaithfully ==
    /\ Len(out) <= 1
    /\ (pc = "done" /\ ~PastLoading) => out = <<>> /\ exit = Exited(1)
    /\ (pc = "done" /\ PastLoading)
           => /\ Len(out) = 1
              /\ exit = Exited(0)
              /\ IF NothingToMatch
                 THEN /\ out[1] = HookOutput("ask", "")
                      /\ result = NoResult
                 ELSE /\ result = Matched
                      /\ out[1].PermissionDecision = "allow"
                             <=> Matched.Decision = DecisionAllow
                      /\ out[1].PermissionDecision = "deny"
                             <=> Matched.Decision = DecisionDeny
                      /\ out[1].PermissionDecision = "ask"
                             <=> Matched.Decision = DecisionPassthrough

\* A Read of a path under /etc denied, the rule named in the reason written.
C25_ReadDenied ==
    /\ pc = "done"
    /\ toolName = "Read"
    /\ filePath = "/etc/hosts"
    /\ command = "git status"
    /\ result.Decision = DecisionDeny
    /\ Len(out) = 1
    /\ out[1].PermissionDecision = "deny"
    /\ HasPrefix(out[1].PermissionDecisionReason, "no-etc: ")

\* The entries the claim of C30 expects for a run that wrote a decision.
EntriesExpected ==
    IF AuditConfig(cfg).AuditLevel = "all" THEN 1
    ELSE IF AuditConfig(cfg).AuditLevel = "matched"
    THEN IF out[1].PermissionDecision \in {"allow", "deny"} THEN 1 ELSE 0
    ELSE 0

\* C30: with an audit file configured, level all appends one entry for
\* every run that writes a decision, level matched one exactly for the runs
\* whose decision is Allow or Deny, level off none; the entry is appended
\* before the decision is written, and a failed audit write leaves the
\* decision that is written as it is.
C30_AuditGating ==
    /\ (pc = "done" /\ Len(out) = 1 /\ AuditConfig(cfg).AuditFile # ""
           /\ audit.writable)
           => Len(audit.entries) = EntriesExpected
    /\ (pc = "audited" /\ shouldAudit(cfg, result) /\ audit.writable)
           => out = <<>> /\ Len(audit.entries) = 1
    /\ (pc = "done" /\ Len(out) = 1 /\ ~audit.writable)
           => /\ audit.entries = <<>>
              /\ out[1] = IF NothingToMatch THEN HookOutput("ask", "")
                          ELSE WriteDecision(Matched)

(***************************************************************************)
(* Properties of concurrent calls on one Matcher.                          *)
(***************************************************************************)
\* The result of the call of caller i made alone.
Alone(i) ==
    IF calls[i].tool = "Bash" THEN MatchBashCommand(cfg, calls[i].command)
    ELSE MatchFilePath(cfg, calls[i].tool, calls[i].filePath)

====
